---- MODULE Spec2Model ----
(***************************************************************************)
(* Session-scoped process bridges of erpnext_mcp_server.                   *)
(*                                                                         *)
(* The repository holds several independent implementations of the same   *)
(* pattern (a registry of child processes keyed by a session, a user or a *)
(* socket id).  They share no state, so the model analyses one at a time: *)
(* the variable impl, fixed by Init, says which module's handlers run.    *)
(*   "vue"  : api/vue_terminal.py          (active_processes)             *)
(*   "term" : handlers/mcp_terminal_socketio.py (MCPTerminalNamespace)    *)
(*   "sock" : handlers/socket_handlers.py  (mcp_processes)                *)
(*   "vue2" : api/vue2_terminal.py         (MCP_SESSIONS)                 *)
(* Request handlers run on the threads of Workers; every handler is cut   *)
(* into steps at the points where another thread can observe or change    *)
(* the shared registry (blocking waits, queue gets, signal/wait pairs).    *)
(***************************************************************************)
EXTENDS Integers, Sequences, FiniteSets, TLC

\* ------------------------------------------------------------- bounds
MaxCalls == 3          \* requests (handler invocations) served in one run
MaxQueue == 1          \* client requests outstanding in one request_queue
TickSeconds == 5400    \* the wall clock advances in steps of this many seconds
MaxClock == 5400       \* the clock stops here
MaxLines == 2          \* lines a child of socket_handlers writes by itself
MaxCommands == 102     \* commands sent to one vue2_terminal session

\* ------------------------------------------------------------- program constants
IdleThreshold == 3600  \* vue_terminal.cleanup_inactive_sessions: > 3600 s
HistoryCap == 100      \* vue2_terminal.MCPSession.add_to_history: last 100 commands

\* ------------------------------------------------------------- universes
Users == {"alice", "bob"}
TokenOrder == <<"s1", "s2">>
SessionIds == {TokenOrder[i] : i \in DOMAIN TokenOrder}
\* one request thread per connected client: the thread serving user u is u
Workers == Users
Pids == {1, 2}
NoPid == 0
NoneMsg == "None"

VARIABLES
  impl,              \* which implementation is under analysis
  calls,             \* handler invocations begun so far
  now,               \* wall clock, seconds
  procs,             \* the operating system's view of the child processes
  nextPid,           \* next process to be spawned
  pc,                \* per worker thread: position in its handler
  loc,               \* per worker thread: the handler's local variables
  terminals,         \* MCPTerminalNamespace.terminals
  pty_master,        \* per child: its PTY master descriptor, and how often it was closed
  output_thread,     \* per child: position of its read_output thread
  reader_loc,        \* per child: the terminal its read_output thread is cleaning up
  active_processes,  \* vue_terminal.active_processes
  request_queue,     \* per session: queue.Queue() of requests for stdin_worker
  response_queue,    \* per session: queue.Queue() of parsed responses
  child_stdin,       \* lines in the pipe to the child
  child_stdout,      \* lines the child wrote and nobody read yet
  stdin_thread,      \* per session: position of stdin_worker
  stdout_thread,     \* per session: position of stdout_worker
  broken_pipe,       \* requests whose write to the child raised BrokenPipeError
  disconnected,      \* socket ids whose client has disconnected
  mcp_processes,     \* socket_handlers.mcp_processes
  sock_thread,       \* per read_mcp_output thread: its position
  sock_attached,     \* per read_mcp_output thread: the process it reads
  sock_line,         \* per read_mcp_output thread: the line read and not yet published
  written,           \* per child: number of lines it wrote
  last_published,    \* per child: number of its line published last
  MCP_SESSIONS,      \* vue2_terminal.MCP_SESSIONS
  issued,            \* per vue2 session id: commands sent to the session stored under it
  command_thread,    \* vue2_terminal: the background thread of a command
  docs,              \* the documents MCP Server Settings and MCP Server Manager
  dev,               \* mcp_dev: MCP_SERVER_PROCESS and where its two threads are
  singleton,         \* ERPNextMCPServer._instance and the instance's fields
  active_sessions,   \* the terminal sessions handle_terminal_websocket looks up
  tz                 \* seconds the site's time zone is ahead of the server's local zone

vars == <<impl, calls, now, procs, nextPid, pc, loc, terminals,
          pty_master, output_thread, reader_loc, active_processes,
          request_queue, response_queue, child_stdin, child_stdout,
          stdin_thread, stdout_thread, broken_pipe, disconnected,
          mcp_processes, sock_thread, sock_attached, sock_line, written,
          last_published, MCP_SESSIONS, issued, command_thread, docs, dev,
          singleton, active_sessions, tz>>

env == <<impl, calls, now>>

\* a client request arrives and a worker thread starts its handler
Accept == calls < MaxCalls /\ calls' = calls + 1
queues == <<request_queue, response_queue>>
pipes == <<child_stdin, child_stdout>>
threads == <<stdin_thread, stdout_thread, broken_pipe>>
vueVars == <<active_processes, queues, pipes, threads>>
termVars == <<terminals, pty_master, output_thread, reader_loc>>
sockVars == <<mcp_processes, sock_thread, sock_attached, sock_line, written,
              last_published>>
v2Vars == <<MCP_SESSIONS, issued, command_thread>>
moreVars == <<docs, dev, singleton, active_sessions>>
restVars == <<tz, moreVars, disconnected, sockVars, v2Vars>>

\* ------------------------------------------------------------- helpers
\* res: what the handler returns; ev: the realtime event it published
\* reply, src: the id the reply handed to the caller carries, the process it is from
\* seen, len: a dict iterator's position and the size of the dict when it was made
\* seq: the place of the request among the requests accepted
\* fds: the PTY pair a create_terminal call opened, and how often it closed each end
Idle == [op |-> "idle", user |-> "-", sid |-> "-", p |-> NoPid,
         todo |-> {}, res |-> "-", ev |-> "-", reply |-> "-", src |-> NoPid,
         seen |-> {}, len |-> 0, seq |-> 0,
         fds |-> [opened |-> FALSE, master |-> 0, slave |-> 0]]

NoProc == [st |-> "none", ign |-> FALSE, term |-> 0, kill |-> 0,
           code |-> 0, owner |-> "-", key |-> "-"]

Sat(n) == IF n < 2 THEN n + 1 ELSE 2

\* frappe.utils.now_datetime(): the wall clock of the site's time zone, as a naive
\* datetime (counted here in seconds)
now_datetime == now + tz

\* time.mktime(dt.timetuple()): a naive datetime read as local time of the server
\* process, whose zone is the reference for tz
mktime(dt) == dt

\* Popen.poll() is None
is_alive(p) == procs[p].st = "running"

\* Popen.terminate(): send_signal polls first and signals only a live child
terminate(ps, p) ==
  IF ps[p].st = "running" THEN [ps EXCEPT ![p].term = Sat(@)] ELSE ps

\* Popen.kill(): SIGKILL is queued for the child; kill() does not wait for it to die
kill(ps, p) ==
  IF ps[p].st = "running" THEN [ps EXCEPT ![p].kill = Sat(@)] ELSE ps

Remove(f, k) == [x \in DOMAIN f \ {k} |-> f[x]]
Put(f, k, v) == [x \in DOMAIN f \cup {k} |-> IF x = k THEN v ELSE f[x]]

\* Data nobody can read any more is dropped from the model's state: a queue or a
\* pipe whose only reader has ended.
Finished(t) == t \in {"done", "failed"}
DropIf(c, q) == IF c THEN <<>> ELSE q

\* ============================================================= operating system
\* A child exits on its own (or is killed from outside the program).
ChildExits(p) ==
  /\ is_alive(p)
  /\ procs' = [procs EXCEPT ![p].st = "exited", ![p].code = 1]
  /\ child_stdin' = [child_stdin EXCEPT ![p] = <<>>]
  /\ UNCHANGED <<restVars, env, nextPid, pc, loc, termVars, active_processes, queues,
                 child_stdout, threads>>

\* A pending signal takes effect: SIGKILL always, SIGTERM unless the child ignores it.
ChildDiesOfSignal(p) ==
  /\ is_alive(p)
  /\ \/ /\ procs[p].kill > 0
        /\ procs' = [procs EXCEPT ![p].st = "exited", ![p].code = -9]
     \/ /\ procs[p].term > 0 /\ ~procs[p].ign
        /\ procs' = [procs EXCEPT ![p].st = "exited", ![p].code = -15]
  /\ child_stdin' = [child_stdin EXCEPT ![p] = <<>>]
  /\ UNCHANGED <<restVars, env, nextPid, pc, loc, termVars, active_processes, queues,
                 child_stdout, threads>>

Tick ==
  /\ now + TickSeconds <= MaxClock
  /\ now' = now + TickSeconds
  /\ UNCHANGED <<restVars, impl, calls, procs, nextPid, pc, loc, termVars, vueVars>>

\* A handler returned; its thread takes the next request.
Return(w) ==
  /\ pc[w] = "ret"
  /\ pc' = [pc EXCEPT ![w] = "idle"]
  /\ loc' = [loc EXCEPT ![w] = Idle]
  /\ UNCHANGED <<restVars, env, procs, nextPid, termVars, vueVars>>

\* ============================================================= api/vue_terminal.py
\* frappe.generate_hash(length=10): a random token.  It may repeat a token drawn
\* before; all tokens never drawn before behave alike, so one stands for them.
drawn == {procs[p].key : p \in {q \in Pids : procs[q].st # "none"}}
generate_hash ==
  drawn \cup (IF SessionIds \subseteq drawn THEN {}
               ELSE {TokenOrder[CHOOSE i \in DOMAIN TokenOrder :
                       /\ TokenOrder[i] \notin drawn
                       /\ \A j \in 1..(i - 1) : TokenOrder[j] \in drawn]})

\* The MCP server child answers one request line with one line on stdout.
ChildResponds(p) ==
  /\ impl = "vue"
  /\ is_alive(p)
  /\ child_stdin[p] # <<>>
  /\ child_stdin' = [child_stdin EXCEPT ![p] = Tail(@)]
  /\ \E k \in {"ok", "error", "garbage"} :
       child_stdout' = [child_stdout EXCEPT
          ![p] = DropIf(Finished(stdout_thread[p]),
                        Append(@, [id |-> Head(child_stdin[p]), kind |-> k,
                                   from |-> p]))]
  /\ UNCHANGED <<restVars, env, procs, nextPid, pc, loc, termVars, active_processes,
                 queues, threads>>

\* stdin_worker, line 119: the loop test, with the registry as it is when it runs
stdin_loop_test(reg, p) == IF procs[p].key \notin DOMAIN reg THEN "done" ELSE "get"

\* stdin_worker starts: the first loop test
StdinCheck(p) ==
  /\ impl = "vue"
  /\ stdin_thread[p] = "check"
  /\ stdin_thread' = [stdin_thread EXCEPT ![p] = stdin_loop_test(active_processes, p)]
  /\ request_queue' = [request_queue EXCEPT ![p] = DropIf(Finished(stdin_thread'[p]), @)]
  /\ UNCHANGED <<restVars, env, procs, nextPid, pc, loc, termVars, active_processes,
                 response_queue, pipes, stdout_thread, broken_pipe>>

\* stdin_worker, lines 122-135 and the next loop test: the thread rests in
\* get(timeout=1); it wakes with a request (write, flush) or with queue.Empty.
\* (a write to the pipe of a child that exited raises BrokenPipeError: "failed")
StdinGet(p) ==
  /\ impl = "vue"
  /\ stdin_thread[p] = "get"
  /\ IF request_queue[p] = <<>>
       THEN /\ stdin_loop_test(active_processes, p) = "done"
            /\ stdin_thread' = [stdin_thread EXCEPT ![p] = "done"]
            /\ UNCHANGED <<request_queue, child_stdin, broken_pipe>>
       ELSE LET m == Head(request_queue[p])
                t == IF m = NoneMsg THEN "done"
                     ELSE IF is_alive(p) THEN stdin_loop_test(active_processes, p)
                     ELSE "failed"
            IN /\ stdin_thread' = [stdin_thread EXCEPT ![p] = t]
               /\ request_queue' = [request_queue EXCEPT
                                      ![p] = DropIf(Finished(t), Tail(@))]
               /\ child_stdin' = IF m # NoneMsg /\ is_alive(p)
                                   THEN [child_stdin EXCEPT ![p] = Append(@, m)]
                                   ELSE child_stdin
               /\ broken_pipe' = IF t = "failed" THEN broken_pipe \cup {<<p, m>>}
                                  ELSE broken_pipe
  /\ UNCHANGED <<restVars, env, procs, nextPid, pc, loc, termVars, active_processes,
                 response_queue, child_stdout, stdout_thread>>

\* start_mcp_session lines 52, 58-60: the queue stdout_worker of process p is given
\* is the one created for p's session
response_queue_of(p) == p

\* stdout_worker, lines 145-148: the loop tests
stdout_loop_test(p) ==
  IF procs[p].key \notin DOMAIN active_processes \/ ~is_alive(p) THEN "done" ELSE "read"

\* stdout_worker starts: the first loop tests
StdoutCheck(p) ==
  /\ impl = "vue"
  /\ stdout_thread[p] = "check"
  /\ stdout_thread' = [stdout_thread EXCEPT ![p] = stdout_loop_test(p)]
  /\ child_stdout' = [child_stdout EXCEPT ![p] = DropIf(Finished(stdout_thread'[p]), @)]
  /\ UNCHANGED <<restVars, env, procs, nextPid, pc, loc, termVars, active_processes,
                 queues, child_stdin, stdin_thread, broken_pipe>>

\* stdout_worker, lines 150-156 and the next loop tests: the thread rests in
\* readline, which returns a line or end of file; a line that is not JSON is skipped
StdoutRead(p) ==
  /\ impl = "vue"
  /\ stdout_thread[p] = "read"
  /\ IF child_stdout[p] # <<>>
       THEN /\ stdout_thread' = [stdout_thread EXCEPT ![p] = stdout_loop_test(p)]
            /\ child_stdout' = [child_stdout EXCEPT
                                  ![p] = DropIf(Finished(stdout_thread'[p]), Tail(@))]
            /\ response_queue' =
                 IF Head(child_stdout[p]).kind = "garbage"
                   THEN response_queue
                   ELSE [response_queue EXCEPT
                           ![response_queue_of(p)] = Append(@, Head(child_stdout[p]))]
       ELSE /\ ~is_alive(p)
            /\ stdout_thread' = [stdout_thread EXCEPT ![p] = "done"]
            /\ UNCHANGED <<child_stdout, response_queue>>
  /\ UNCHANGED <<restVars, env, procs, nextPid, pc, loc, termVars, active_processes,
                 request_queue, child_stdin, stdin_thread, broken_pipe>>

\* request_queue.put(m)
put(rq, p, m) == [rq EXCEPT ![p] = DropIf(Finished(stdin_thread[p]), Append(@, m))]

\* ------------------------------------------------------------- cleanup_session
\* line 278: if session_id in active_processes
cleanup_session_guard(sid) == sid \in DOMAIN active_processes

\* What the caller of cleanup_session does once it returned (err: it raised KeyError).
\*   execute_mcp_command lines 180, 247-255; end_mcp_session lines 264-273;
\*   cleanup_inactive_sessions lines 340-349.
AfterCleanup(w, l, err) ==
  CASE l.op = "execute" ->
         /\ pc' = [pc EXCEPT ![w] = "ret"]
         /\ loc' = [loc EXCEPT ![w] =
               [l EXCEPT !.res = IF err THEN "KeyError" ELSE "Session terminated",
                         !.ev = IF err THEN "mcp_command_result" ELSE "-"]]
    [] l.op = "end" ->
         /\ pc' = [pc EXCEPT ![w] = "ret"]
         /\ loc' = [loc EXCEPT ![w] =
               [l EXCEPT !.res = IF err THEN "KeyError" ELSE "ok",
                         !.ev = IF err THEN "-" ELSE "mcp_session_ended"]]
    [] l.op = "sweep" ->
         /\ pc' = [pc EXCEPT ![w] = IF err THEN "ret" ELSE "sweep_next"]
         /\ loc' = [loc EXCEPT ![w] = [l EXCEPT !.res = IF err THEN "KeyError" ELSE "-"]]

\* cleanup_session(l.sid) is entered: lines 278-290 (guard, put(None), terminate())
CleanupCall(w, l) ==
  IF cleanup_session_guard(l.sid)
    THEN LET p == active_processes[l.sid].process IN
         /\ request_queue' = put(request_queue, p, NoneMsg)
         /\ procs' = terminate(procs, p)
         /\ pc' = [pc EXCEPT ![w] = "cs_wait"]
         /\ loc' = [loc EXCEPT ![w] = [l EXCEPT !.p = p]]
    ELSE /\ AfterCleanup(w, l, FALSE)
         /\ UNCHANGED <<request_queue, procs>>

\* cleanup_session lines 291-295: wait(timeout=5); on TimeoutExpired, kill()
CsWait(w) ==
  /\ impl = "vue"
  /\ pc[w] = "cs_wait"
  /\ procs' = IF is_alive(loc[w].p) THEN kill(procs, loc[w].p) ELSE procs
  /\ pc' = [pc EXCEPT ![w] = "cs_del"]
  /\ UNCHANGED <<restVars, env, nextPid, loc, termVars, vueVars>>

\* cleanup_session line 298: del active_processes[session_id]
CsDel(w) ==
  /\ impl = "vue"
  /\ pc[w] = "cs_del"
  /\ IF loc[w].sid \in DOMAIN active_processes
       THEN /\ active_processes' = Remove(active_processes, loc[w].sid)
            /\ AfterCleanup(w, loc[w], FALSE)
       ELSE /\ UNCHANGED active_processes
            /\ AfterCleanup(w, loc[w], TRUE)
  /\ UNCHANGED <<restVars, env, procs, nextPid, termVars, queues, pipes, threads>>

\* ------------------------------------------------------------- start_mcp_session
\* lines 22-65: generate the id, Popen, create the queues, start both threads
StartSpawn(w, u, maxp) ==
  /\ impl = "vue"
  /\ pc[w] = "idle"
  /\ nextPid <= maxp
  /\ \E sid \in generate_hash, ign \in BOOLEAN :
       /\ procs' = [procs EXCEPT ![nextPid] =
                      [st |-> "running", ign |-> ign, term |-> 0, kill |-> 0,
                       code |-> 0, owner |-> u, key |-> sid]]
       /\ loc' = [loc EXCEPT ![w] = [Idle EXCEPT !.op = "start", !.user = u,
                                                  !.sid = sid, !.p = nextPid]]
  /\ nextPid' = nextPid + 1
  /\ stdin_thread' = [stdin_thread EXCEPT ![nextPid] = "check"]
  /\ stdout_thread' = [stdout_thread EXCEPT ![nextPid] = "check"]
  /\ pc' = [pc EXCEPT ![w] = "start_store"]
  /\ Accept
  /\ UNCHANGED <<restVars, impl, now, termVars, active_processes, queues, pipes, broken_pipe>>

\* lines 20-48 and 110-112: subprocess.Popen raises (Popen itself closes the pipes
\* it had made); the exception is logged and a failure returned
StartSpawnFails(w, u) ==
  /\ impl = "vue"
  /\ pc[w] = "idle"
  /\ pc' = [pc EXCEPT ![w] = "ret"]
  /\ loc' = [loc EXCEPT ![w] = [Idle EXCEPT !.op = "start", !.user = u,
                                             !.res = "spawn failed"]]
  /\ Accept
  /\ UNCHANGED <<restVars, impl, now, procs, nextPid, termVars, vueVars>>

\* lines 68-91: store the entry, queue the initialize request
StartStore(w) ==
  /\ impl = "vue"
  /\ pc[w] = "start_store"
  /\ active_processes' = Put(active_processes, loc[w].sid,
        [process |-> loc[w].p, user |-> loc[w].user, last_used |-> now_datetime])
  /\ request_queue' = put(request_queue, loc[w].p, "init")
  /\ pc' = [pc EXCEPT ![w] = "start_wait"]
  /\ UNCHANGED <<restVars, env, procs, nextPid, loc, termVars, response_queue, pipes, threads>>

\* What start_mcp_session does when the handshake fails, lines 96-99 and 110-112:
\* the exception is logged and a failure returned.
start_failed(w, reason) ==
  /\ loc' = [loc EXCEPT ![w].res = reason]
  /\ UNCHANGED <<procs, active_processes>>

\* lines 94-108: response_queue.get(timeout=10)
StartWait(w) ==
  /\ impl = "vue"
  /\ pc[w] = "start_wait"
  /\ LET p == loc[w].p IN
     IF response_queue[p] = <<>>
       THEN /\ start_failed(w, "init timeout")
            /\ UNCHANGED response_queue
       ELSE /\ response_queue' = [response_queue EXCEPT ![p] = Tail(@)]
            /\ IF Head(response_queue[p]).kind = "error"
                 THEN start_failed(w, "init failed")
                 ELSE /\ loc' = [loc EXCEPT ![w].res = "ok",
                                            ![w].ev = "mcp_session_started"]
                      /\ UNCHANGED <<procs, active_processes>>
  /\ pc' = [pc EXCEPT ![w] = "ret"]
  /\ UNCHANGED <<restVars, env, nextPid, termVars, request_queue, pipes, threads>>

\* ------------------------------------------------------------- execute_mcp_command
\* A lookup that falls back on another session when the one named is missing.
session_process_or_other(sid) ==
  IF sid \in DOMAIN active_processes THEN active_processes[sid].process
  ELSE IF active_processes = << >> THEN NoPid
  ELSE active_processes[CHOOSE t \in DOMAIN active_processes : TRUE].process

\* lines 171-175: if session_id not in active_processes: "Session not found";
\* else the process of active_processes[session_id]
session_process(sid) ==
  IF sid \in DOMAIN active_processes THEN active_processes[sid].process ELSE NoPid

\* lines 171-180: registry lookup and liveness check
ExecBegin(w, u, sid) ==
  /\ impl = "vue"
  /\ pc[w] = "idle"
  /\ LET l == [Idle EXCEPT !.op = "execute", !.user = u, !.sid = sid] IN
     IF session_process(sid) = NoPid
       THEN /\ pc' = [pc EXCEPT ![w] = "ret"]
            /\ loc' = [loc EXCEPT ![w] = [l EXCEPT !.res = "Session not found"]]
            /\ UNCHANGED <<procs, request_queue>>
       ELSE LET p == session_process(sid) IN
            IF ~is_alive(p)
              THEN CleanupCall(w, l)
              ELSE /\ Len(request_queue[p]) < MaxQueue
                   /\ pc' = [pc EXCEPT ![w] = "exec_put"]
                   /\ loc' = [loc EXCEPT ![w] = [l EXCEPT !.p = p]]
                   /\ UNCHANGED <<procs, request_queue>>
  /\ Accept
  /\ UNCHANGED <<restVars, impl, now, nextPid, termVars, active_processes, response_queue,
                 pipes, threads>>

\* line 183: process_info["last_used"] = now_datetime().  process_info is the dict
\* fetched at line 174; the registry sees the write while it still holds that dict.
touch_last_used(w) ==
  LET sid == loc[w].sid IN
  IF sid \in DOMAIN active_processes /\ active_processes[sid].process = loc[w].p
    THEN [active_processes EXCEPT ![sid].last_used = now_datetime]
    ELSE active_processes

\* line 186: request_id = frappe.generate_hash(length=8).  Concurrent requests are
\* taken to draw different ids: the id drawn by thread w is w.
request_id(w) == w

\* lines 183-199: refresh last_used, build the request, queue it
ExecPut(w) ==
  /\ impl = "vue"
  /\ pc[w] = "exec_put"
  /\ active_processes' = touch_last_used(w)
  /\ request_queue' = put(request_queue, loc[w].p, request_id(w))
  /\ UNCHANGED loc
  /\ pc' = [pc EXCEPT ![w] = "exec_wait"]
  /\ UNCHANGED <<restVars, env, procs, nextPid, termVars, response_queue, pipes, threads>>

\* lines 202-245: response_queue.get(timeout=30), build and publish the result
ExecWait(w) ==
  /\ impl = "vue"
  /\ pc[w] = "exec_wait"
  /\ LET p == loc[w].p IN
     IF response_queue[p] = <<>>
       THEN /\ loc' = [loc EXCEPT ![w].res = "Command timed out"]
            /\ UNCHANGED response_queue
       ELSE /\ response_queue' = [response_queue EXCEPT ![p] = Tail(@)]
            /\ loc' = [loc EXCEPT ![w].res = Head(response_queue[p]).kind,
                                  ![w].ev = "mcp_command_result",
                                  ![w].reply = Head(response_queue[p]).id,
                                  ![w].src = Head(response_queue[p]).from]
  /\ pc' = [pc EXCEPT ![w] = "ret"]
  /\ UNCHANGED <<restVars, env, procs, nextPid, termVars, active_processes, request_queue,
                 pipes, threads>>

\* ------------------------------------------------------------- end_mcp_session
\* lines 259-273
EndBegin(w, u, sid) ==
  /\ impl = "vue"
  /\ pc[w] = "idle"
  /\ CleanupCall(w, [Idle EXCEPT !.op = "end", !.user = u, !.sid = sid])
  /\ Accept
  /\ UNCHANGED <<restVars, impl, now, nextPid, termVars, active_processes, response_queue,
                 pipes, threads>>

\* ------------------------------------------------------------- cleanup_inactive_sessions
\* lines 332-336: is this entry dead, or unused for more than an hour
is_dead_or_inactive(info, current_time) ==
  \/ ~is_alive(info.process)
  \/ (current_time - mktime(info.last_used)) > IdleThreshold

\* for session_id, info in active_processes.items(): the iterator's next().  It
\* raises RuntimeError when the dict's size is not the one it was made with, ends
\* when every key was visited, and yields the next key otherwise (the keys in the
\* order in which their processes were spawned).
dict_next(l) ==
  LET rest == DOMAIN active_processes \ l.seen IN
  IF Cardinality(DOMAIN active_processes) # l.len THEN "RuntimeError"
  ELSE IF rest = {} THEN "StopIteration"
  ELSE CHOOSE sid \in rest :
         \A t \in rest : active_processes[sid].process <= active_processes[t].process

\* get_active_sessions, lines 304-316: one round of the loop, for the entry sid
list_visit(l, sid) ==
  [l EXCEPT !.seen = @ \cup {sid},
            !.todo = IF active_processes[sid].user = l.user THEN @ \cup {sid} ELSE @]

\* cleanup_inactive_sessions, lines 330-337: one round of the loop, for the entry sid
sweep_visit(l, sid) ==
  [l EXCEPT !.seen = @ \cup {sid},
            !.todo = IF is_dead_or_inactive(active_processes[sid], now)
                       THEN @ \cup {sid} ELSE @]

\* What the two loops do with the iterator's answer: visit the entry, leave the
\* loop (get_active_sessions returns its list, line 318; the sweep goes on to its
\* cleanup loop, line 340), or end in the handler of the exception (lines 320-321,
\* 348-349).
loop_step(w, l) ==
  LET n == dict_next(l) IN
  CASE n = "RuntimeError" ->
         /\ pc' = [pc EXCEPT ![w] = "ret"]
         /\ loc' = [loc EXCEPT ![w] = [l EXCEPT !.res = "RuntimeError"]]
    [] n = "StopIteration" ->
         /\ pc' = [pc EXCEPT ![w] = IF l.op = "sweep" THEN "sweep_next" ELSE "ret"]
         /\ loc' = [loc EXCEPT ![w] = IF l.op = "sweep" THEN l ELSE [l EXCEPT !.res = "ok"]]
    [] OTHER ->
         /\ pc' = [pc EXCEPT ![w] = "iter"]
         /\ loc' = [loc EXCEPT ![w] = IF l.op = "sweep" THEN sweep_visit(l, n)
                                      ELSE list_visit(l, n)]

\* get_active_sessions, lines 302-307: the loop is entered
ListScan(w, u) ==
  /\ impl = "vue"
  /\ pc[w] = "idle"
  /\ loop_step(w, [Idle EXCEPT !.op = "list", !.user = u,
                               !.len = Cardinality(DOMAIN active_processes)])
  /\ Accept
  /\ UNCHANGED <<restVars, impl, now, procs, nextPid, termVars, vueVars>>

\* lines 327-337: the scan is entered
SweepScan(w) ==
  /\ impl = "vue"
  /\ pc[w] = "idle"
  /\ loop_step(w, [Idle EXCEPT !.op = "sweep",
                               !.len = Cardinality(DOMAIN active_processes)])
  /\ Accept
  /\ UNCHANGED <<restVars, impl, now, procs, nextPid, termVars, vueVars>>

\* the next round of either loop
LoopIter(w) ==
  /\ impl = "vue"
  /\ pc[w] = "iter"
  /\ loop_step(w, loc[w])
  /\ UNCHANGED <<restVars, env, procs, nextPid, termVars, vueVars>>

\* lines 340-346: the cleanup loop
SweepNext(w) ==
  /\ impl = "vue"
  /\ pc[w] = "sweep_next"
  /\ IF loc[w].todo = {}
       THEN /\ pc' = [pc EXCEPT ![w] = "ret"]
            /\ loc' = [loc EXCEPT ![w].res = "ok"]
            /\ UNCHANGED <<procs, request_queue>>
       ELSE \E sid \in loc[w].todo :
              CleanupCall(w, [loc[w] EXCEPT !.sid = sid, !.todo = @ \ {sid}])
  /\ UNCHANGED <<restVars, env, nextPid, termVars, active_processes, response_queue,
                 pipes, threads>>

\* ============================================================= handlers/mcp_terminal_socketio.py
\* The registry is keyed by the socket id of the client connection; a terminal's
\* descriptor is numbered like its child.
\* line 194: if sid in self.terminals
cleanup_terminal_guard(sid) == sid \in DOMAIN terminals

\* cleanup_terminal lines 195-201: mark the terminal inactive; a child that is
\* still running gets SIGTERM (killpg)
ct_deactivate(sid) == [terminals EXCEPT ![sid].active = FALSE]
ct_signal(sid) == terminate(procs, terminals[sid].process)

\* cleanup_terminal lines 202-207: wait(timeout=1); on TimeoutExpired, killpg(SIGKILL)
ct_escalate(p) == IF is_alive(p) THEN kill(procs, p) ELSE procs

\* cleanup_terminal lines 210-213: os.close(terminal["pty_master"]); OSError is swallowed
ct_close(p) == [pty_master EXCEPT ![p] = [st |-> "closed", closes |-> Sat(@.closes)]]

\* A teardown that leaves the entry in the registry.
ct_delete_skipped(sid) == terminals

\* cleanup_terminal line 216: del self.terminals[sid]
ct_delete(sid) == Remove(terminals, sid)

\* on_mcp_register -> create_terminal, lines 36-122: the event of a connected
\* client is received; openpty, Popen in its own session
OnRegister(w, sid, maxp) ==
  /\ impl = "term"
  /\ pc[w] = "idle"
  /\ sid \notin disconnected
  /\ nextPid <= maxp
  /\ \E ign \in BOOLEAN :
       procs' = [procs EXCEPT ![nextPid] =
                   [st |-> "running", ign |-> ign, term |-> 0, kill |-> 0,
                    code |-> 0, owner |-> sid, key |-> sid]]
  /\ nextPid' = nextPid + 1
  /\ pty_master' = [pty_master EXCEPT ![nextPid] = [st |-> "open", closes |-> 0]]
  /\ pc' = [pc EXCEPT ![w] = "create_store"]
  /\ loc' = [loc EXCEPT ![w] = [Idle EXCEPT !.op = "register", !.sid = sid,
                                             !.p = nextPid]]
  /\ Accept
  /\ UNCHANGED <<restVars, impl, now, terminals, output_thread, reader_loc, vueVars>>

\* create_terminal, lines 84-93: the server binary is missing; the client is told
\* and nothing is opened
CreateTerminalNoBinary(w, sid) ==
  /\ impl = "term"
  /\ pc[w] = "idle"
  /\ sid \notin disconnected
  /\ pc' = [pc EXCEPT ![w] = "ret"]
  /\ loc' = [loc EXCEPT ![w] = [Idle EXCEPT !.op = "register", !.sid = sid,
                                             !.res = "spawn failed",
                                             !.ev = "mcp:output"]]
  /\ Accept
  /\ UNCHANGED <<restVars, impl, now, procs, nextPid, termVars, vueVars>>

\* create_terminal, lines 96-116: openpty gives the pair, subprocess.Popen raises
CreateTerminalPopenRaises(w, sid) ==
  /\ impl = "term"
  /\ pc[w] = "idle"
  /\ sid \notin disconnected
  /\ pc' = [pc EXCEPT ![w] = "create_except"]
  /\ loc' = [loc EXCEPT ![w] = [Idle EXCEPT !.op = "register", !.sid = sid,
                                             !.fds.opened = TRUE]]
  /\ Accept
  /\ UNCHANGED <<restVars, impl, now, procs, nextPid, termVars, vueVars>>

\* An exception handler that closes the master end only.
create_terminal_except_master_only(l) ==
  [l EXCEPT !.res = "spawn failed", !.ev = "mcp:output", !.fds.master = @ + 1]

\* create_terminal, lines 138-147: the handler of the exception tells the client
\* and closes both ends of the pair
create_terminal_except(l) ==
  [l EXCEPT !.res = "spawn failed", !.ev = "mcp:output",
            !.fds.master = @ + 1, !.fds.slave = @ + 1]

CreateTerminalExcept(w) ==
  /\ impl = "term"
  /\ pc[w] = "create_except"
  /\ pc' = [pc EXCEPT ![w] = "ret"]
  /\ loc' = [loc EXCEPT ![w] = create_terminal_except(loc[w])]
  /\ UNCHANGED <<restVars, env, procs, nextPid, termVars, vueVars>>

\* create_terminal, lines 124-135: store the entry under sid, start read_output
CreateTerminalStore(w) ==
  /\ impl = "term"
  /\ pc[w] = "create_store"
  /\ terminals' = Put(terminals, loc[w].sid, [process |-> loc[w].p, active |-> TRUE])
  /\ output_thread' = [output_thread EXCEPT ![loc[w].p] = "loop"]
  /\ pc' = [pc EXCEPT ![w] = "ret"]
  /\ loc' = [loc EXCEPT ![w].res = "ok"]
  /\ UNCHANGED <<restVars, env, procs, nextPid, pty_master, reader_loc, vueVars>>

\* on_mcp_input, lines 49-63: write the client's keystrokes to the PTY master
OnInput(w, sid) ==
  /\ impl = "term"
  /\ pc[w] = "idle"
  /\ pc' = [pc EXCEPT ![w] = "ret"]
  /\ IF sid \in DOMAIN terminals /\ terminals[sid].active
       THEN LET p == terminals[sid].process IN
            /\ Len(child_stdin[p]) < MaxQueue
            /\ IF pty_master[p].st = "open" /\ is_alive(p)
                 THEN /\ child_stdin' = [child_stdin EXCEPT ![p] = Append(@, "key")]
                      /\ loc' = [loc EXCEPT ![w] = [Idle EXCEPT !.op = "input",
                                    !.sid = sid, !.p = p]]
                 ELSE /\ UNCHANGED child_stdin
                      /\ loc' = [loc EXCEPT ![w] = [Idle EXCEPT !.op = "input",
                                    !.sid = sid, !.p = p, !.ev = "logged"]]
       ELSE /\ UNCHANGED child_stdin
            /\ loc' = [loc EXCEPT ![w] = [Idle EXCEPT !.op = "input", !.sid = sid]]
  /\ Accept
  /\ UNCHANGED <<restVars, impl, now, procs, nextPid, termVars, active_processes, queues,
                 child_stdout, threads>>

\* on_mcp_resize, lines 65-80: set the window size of the terminal's PTY
OnResize(w, sid) ==
  /\ impl = "term"
  /\ pc[w] = "idle"
  /\ pc' = [pc EXCEPT ![w] = "ret"]
  /\ loc' = [loc EXCEPT ![w] =
       IF sid \in DOMAIN terminals
         THEN [Idle EXCEPT !.op = "resize", !.sid = sid, !.p = terminals[sid].process,
                           !.ev = IF pty_master[terminals[sid].process].st = "open"
                                    THEN "resized" ELSE "logged"]
         ELSE [Idle EXCEPT !.op = "resize", !.sid = sid]]
  /\ Accept
  /\ UNCHANGED <<restVars, impl, now, procs, nextPid, termVars, vueVars>>

\* The child on the PTY echoes what it reads.
TermChildEchoes(p) ==
  /\ impl = "term"
  /\ is_alive(p)
  /\ child_stdin[p] # <<>>
  /\ child_stdin' = [child_stdin EXCEPT ![p] = Tail(@)]
  /\ child_stdout' = [child_stdout EXCEPT
        ![p] = DropIf(output_thread[p] # "loop", Append(@, Head(child_stdin[p])))]
  /\ UNCHANGED <<restVars, env, procs, nextPid, pc, loc, termVars, active_processes, queues, threads>>

\* on_disconnect -> cleanup_terminal(sid), lines 31-34, 194-201
OnDisconnect(w, sid) ==
  /\ impl = "term"
  /\ pc[w] = "idle"
  /\ disconnected' = disconnected \cup {sid}
  /\ IF cleanup_terminal_guard(sid)
       THEN /\ terminals' = ct_deactivate(sid)
            /\ procs' = ct_signal(sid)
            /\ pc' = [pc EXCEPT ![w] = IF is_alive(terminals[sid].process)
                                         THEN "ct_wait" ELSE "ct_close"]
            /\ loc' = [loc EXCEPT ![w] = [Idle EXCEPT !.op = "disconnect", !.sid = sid,
                                                       !.p = terminals[sid].process]]
       ELSE /\ pc' = [pc EXCEPT ![w] = "ret"]
            /\ loc' = [loc EXCEPT ![w] = [Idle EXCEPT !.op = "disconnect", !.sid = sid,
                                                       !.res = "ok"]]
            /\ UNCHANGED <<terminals, procs>>
  /\ Accept
  /\ UNCHANGED <<tz, moreVars, sockVars, v2Vars, impl, now, nextPid, pty_master, output_thread,
                 reader_loc, vueVars>>

\* cleanup_terminal lines 202-207, run by a request thread
CtWait(w) ==
  /\ impl = "term"
  /\ pc[w] = "ct_wait"
  /\ procs' = ct_escalate(loc[w].p)
  /\ pc' = [pc EXCEPT ![w] = "ct_close"]
  /\ UNCHANGED <<restVars, env, nextPid, loc, termVars, vueVars>>

\* cleanup_terminal lines 210-217, run by a request thread: close the descriptor,
\* del self.terminals[sid] (KeyError when another thread deleted it first)
CtClose(w) ==
  /\ impl = "term"
  /\ pc[w] = "ct_close"
  /\ pty_master' = ct_close(loc[w].p)
  /\ IF loc[w].sid \in DOMAIN terminals
       THEN /\ terminals' = ct_delete(loc[w].sid)
            /\ loc' = [loc EXCEPT ![w].res = "ok"]
       ELSE /\ UNCHANGED terminals
            /\ loc' = [loc EXCEPT ![w].res = "KeyError"]
  /\ pc' = [pc EXCEPT ![w] = "ret"]
  /\ UNCHANGED <<restVars, env, procs, nextPid, output_thread, reader_loc, vueVars>>

\* read_output, line 154: the loop test
read_loop_test(reg, sid) == sid \in DOMAIN reg /\ reg[sid].active

\* read_output, lines 176-183: has the process of the entry now under sid ended
read_poll_break(sid) ==
  sid \in DOMAIN terminals /\ ~is_alive(terminals[sid].process)

\* read_output, lines 154-186: one round of the loop of the thread reading child p.
\* select/os.read gives output (emitted to the client), end of file or an error;
\* then the poll test and the loop test; leaving the loop calls cleanup_terminal.
ReadOutput(p) ==
  /\ impl = "term"
  /\ output_thread[p] = "loop"
  /\ LET sid == procs[p].key
         got == pty_master[p].st = "open" /\ child_stdout[p] # <<>>
         eof == pty_master[p].st # "open" \/ (child_stdout[p] = <<>> /\ ~is_alive(p))
         leave == eof \/ read_poll_break(sid) \/ ~read_loop_test(terminals, sid)
     IN /\ got \/ leave
        /\ output_thread' = [output_thread EXCEPT
                               ![p] = IF leave THEN "ct_begin" ELSE "loop"]
        /\ child_stdout' = [child_stdout EXCEPT
                              ![p] = IF leave THEN <<>> ELSE IF got THEN Tail(@) ELSE @]
  /\ UNCHANGED <<restVars, env, procs, nextPid, pc, loc, terminals, pty_master,
                 reader_loc, active_processes, queues, child_stdin, threads>>

\* read_output, lines 159-166: output was read and self.emit raises
ReadOutputEmitFails(p) ==
  /\ impl = "term"
  /\ output_thread[p] = "loop"
  /\ pty_master[p].st = "open" /\ child_stdout[p] # <<>>
  /\ output_thread' = [output_thread EXCEPT ![p] = "emit_raised"]
  /\ child_stdout' = [child_stdout EXCEPT ![p] = <<>>]
  /\ UNCHANGED <<restVars, env, procs, nextPid, pc, loc, terminals, pty_master,
                 reader_loc, active_processes, queues, child_stdin, threads>>

\* read_output, lines 170-173 and 188-190: the handlers of the exception emit
\* raised.  An OSError is caught inside the loop, which breaks and reaches
\* cleanup_terminal at line 186; any other exception is caught outside the loop
\* and handled by cleanup_terminal at line 190.
ReadOutputExcept(p) ==
  /\ impl = "term"
  /\ output_thread[p] = "emit_raised"
  /\ \E handler \in {"ct_begin", "ct_again"} :
       output_thread' = [output_thread EXCEPT ![p] = handler]
  /\ UNCHANGED <<restVars, env, procs, nextPid, pc, loc, terminals, pty_master,
                 reader_loc, vueVars>>

\* cleanup_terminal(sid) entered by the reader thread of child p, lines 186, 190
ReaderCtBegin(p) ==
  /\ impl = "term"
  /\ output_thread[p] \in {"ct_begin", "ct_again"}
  /\ LET sid == procs[p].key IN
     IF cleanup_terminal_guard(sid)
       THEN /\ terminals' = ct_deactivate(sid)
            /\ procs' = ct_signal(sid)
            /\ reader_loc' = [reader_loc EXCEPT ![p] = terminals[sid].process]
            /\ output_thread' = [output_thread EXCEPT
                 ![p] = IF is_alive(terminals[sid].process)
                          THEN (IF @ = "ct_begin" THEN "ct_wait" ELSE "ct_wait2")
                          ELSE (IF @ = "ct_begin" THEN "ct_close" ELSE "ct_close2")]
       ELSE /\ output_thread' = [output_thread EXCEPT ![p] = "done"]
            /\ UNCHANGED <<terminals, procs, reader_loc>>
  /\ UNCHANGED <<restVars, env, nextPid, pc, loc, pty_master, vueVars>>

\* cleanup_terminal lines 202-207, run by the reader thread
ReaderCtWait(p) ==
  /\ impl = "term"
  /\ output_thread[p] \in {"ct_wait", "ct_wait2"}
  /\ procs' = ct_escalate(reader_loc[p])
  /\ output_thread' = [output_thread EXCEPT
                         ![p] = IF @ = "ct_wait" THEN "ct_close" ELSE "ct_close2"]
  /\ UNCHANGED <<restVars, env, nextPid, pc, loc, terminals, pty_master,
                 reader_loc, vueVars>>

\* cleanup_terminal lines 210-217, run by the reader thread.  A KeyError raised by
\* the call at line 186 is caught at line 188 and cleanup_terminal is called again
\* (line 190); raised there, it ends the thread.
ReaderCtClose(p) ==
  /\ impl = "term"
  /\ output_thread[p] \in {"ct_close", "ct_close2"}
  /\ pty_master' = ct_close(reader_loc[p])
  /\ IF procs[p].key \in DOMAIN terminals
       THEN /\ terminals' = ct_delete(procs[p].key)
            /\ output_thread' = [output_thread EXCEPT ![p] = "done"]
       ELSE /\ UNCHANGED terminals
            /\ output_thread' = [output_thread EXCEPT
                                   ![p] = IF @ = "ct_close" THEN "ct_again" ELSE "failed"]
  /\ reader_loc' = [reader_loc EXCEPT ![p] = NoPid]
  /\ UNCHANGED <<restVars, env, procs, nextPid, pc, loc, vueVars>>

\* ============================================================= handlers/socket_handlers.py
\* The registry mcp_processes is keyed by the user; a read_mcp_output thread is
\* named after the child whose start created it.  The children write numbered
\* lines by themselves (the banner of the started script).
SockChildWrites(p) ==
  /\ impl = "sock"
  /\ is_alive(p)
  /\ written[p] < MaxLines
  /\ written' = [written EXCEPT ![p] = @ + 1]
  /\ child_stdout' = [child_stdout EXCEPT ![p] = Append(@, written[p] + 1)]
  /\ UNCHANGED <<env, procs, nextPid, pc, loc, termVars, tz, moreVars, disconnected, v2Vars,
                 active_processes, queues, child_stdin, threads, mcp_processes,
                 sock_thread, sock_attached, sock_line, last_published>>

\* start_mcp_process(user), lines 404-437: Popen, store the entry under user,
\* start the reader thread, publish the start
SockStart(w, user, maxp) ==
  /\ impl = "sock"
  /\ pc[w] = "idle"
  /\ nextPid <= maxp
  /\ procs' = [procs EXCEPT ![nextPid] =
                 [st |-> "running", ign |-> FALSE, term |-> 0, kill |-> 0,
                  code |-> 0, owner |-> user, key |-> user]]
  /\ nextPid' = nextPid + 1
  /\ mcp_processes' = Put(mcp_processes, user,
                          [process |-> nextPid, stop_thread |-> FALSE])
  /\ sock_thread' = [sock_thread EXCEPT ![nextPid] = "start"]
  /\ pc' = [pc EXCEPT ![w] = "ret"]
  /\ loc' = [loc EXCEPT ![w] = [Idle EXCEPT !.op = "start", !.user = user,
                                             !.p = nextPid, !.res = "ok",
                                             !.ev = "mcp_terminal_output"]]
  /\ Accept
  /\ UNCHANGED <<impl, now, termVars, tz, moreVars, disconnected, v2Vars, vueVars, sock_attached,
                 sock_line, written, last_published>>

\* read_mcp_output(user), lines 444-452: the process the thread will read is the
\* one the registry holds under user when the thread gets to run
read_mcp_output_process(user) ==
  IF user \in DOMAIN mcp_processes THEN mcp_processes[user].process ELSE NoPid

\* read_mcp_output, lines 442-458: the thread starts
SockReaderStart(t) ==
  /\ impl = "sock"
  /\ sock_thread[t] = "start"
  /\ LET process == read_mcp_output_process(procs[t].key) IN
     /\ sock_attached' = [sock_attached EXCEPT ![t] = process]
     /\ sock_thread' = [sock_thread EXCEPT
                          ![t] = IF process = NoPid THEN "done" ELSE "read"]
  /\ UNCHANGED <<env, procs, nextPid, pc, loc, termVars, tz, moreVars, disconnected, v2Vars,
                 vueVars, mcp_processes, sock_line, written, last_published>>

\* read_mcp_output, lines 463-466: readline returns a line or end of file; the
\* stop_thread flag of the entry under user ends the loop
SockReadLine(t) ==
  /\ impl = "sock"
  /\ sock_thread[t] = "read"
  /\ LET q == sock_attached[t] IN
     IF child_stdout[q] # <<>>
       THEN /\ child_stdout' = [child_stdout EXCEPT ![q] = Tail(@)]
            /\ IF mcp_processes[procs[t].key].stop_thread
                 THEN /\ sock_thread' = [sock_thread EXCEPT ![t] = "exit"]
                      /\ UNCHANGED sock_line
                 ELSE /\ sock_thread' = [sock_thread EXCEPT ![t] = "publish"]
                      /\ sock_line' = [sock_line EXCEPT ![t] = Head(child_stdout[q])]
       ELSE /\ ~is_alive(q)
            /\ sock_thread' = [sock_thread EXCEPT ![t] = "exit"]
            /\ UNCHANGED <<child_stdout, sock_line>>
  /\ UNCHANGED <<env, procs, nextPid, pc, loc, termVars, tz, moreVars, disconnected, v2Vars,
                 active_processes, queues, child_stdin, threads, mcp_processes,
                 sock_attached, written, last_published>>

\* read_mcp_output, lines 468-472: publish_realtime("mcp_terminal_output", line)
SockPublish(t) ==
  /\ impl = "sock"
  /\ sock_thread[t] = "publish"
  /\ last_published' = [last_published EXCEPT ![sock_attached[t]] = sock_line[t]]
  /\ sock_line' = [sock_line EXCEPT ![t] = 0]
  /\ sock_thread' = [sock_thread EXCEPT ![t] = "read"]
  /\ UNCHANGED <<env, procs, nextPid, pc, loc, termVars, tz, moreVars, disconnected, v2Vars,
                 vueVars, mcp_processes, sock_attached, written>>

\* read_mcp_output, lines 482-493: when the process read has ended, the entry now
\* under user gets process = None
read_mcp_output_clear(user, process) ==
  IF ~is_alive(process)
    THEN [mcp_processes EXCEPT ![user].process = NoPid]
    ELSE mcp_processes

\* read_mcp_output, lines 481-496: the end of the thread
SockReaderExit(t) ==
  /\ impl = "sock"
  /\ sock_thread[t] = "exit"
  /\ mcp_processes' = read_mcp_output_clear(procs[t].key, sock_attached[t])
  /\ sock_thread' = [sock_thread EXCEPT ![t] = "done"]
  /\ UNCHANGED <<env, procs, nextPid, pc, loc, termVars, tz, moreVars, disconnected, v2Vars,
                 vueVars, sock_attached, sock_line, written, last_published>>

\* send_terminal_input(command), lines 304-328: the checks of the entry under the
\* calling user; a process found ended is cleared from the entry
SendInput(w, user) ==
  /\ impl = "sock"
  /\ pc[w] = "idle"
  /\ LET l == [Idle EXCEPT !.op = "input", !.user = user, !.seq = calls + 1,
                           !.ev = "mcp_terminal_output"]
         process == read_mcp_output_process(user)
     IN IF process = NoPid
          THEN /\ pc' = [pc EXCEPT ![w] = "ret"]
               /\ loc' = [loc EXCEPT ![w] = [l EXCEPT !.res = "MCP Server not running"]]
               /\ UNCHANGED mcp_processes
          ELSE IF ~is_alive(process)
            THEN /\ pc' = [pc EXCEPT ![w] = "ret"]
                 /\ loc' = [loc EXCEPT ![w] = [l EXCEPT !.res = "MCP Server terminated"]]
                 /\ mcp_processes' = [mcp_processes EXCEPT ![user].process = NoPid]
            ELSE /\ pc' = [pc EXCEPT ![w] = "stdin_write"]
                 /\ loc' = [loc EXCEPT ![w] = [l EXCEPT !.p = process]]
                 /\ UNCHANGED mcp_processes
  /\ Accept
  /\ UNCHANGED <<impl, now, procs, nextPid, termVars, tz, moreVars, disconnected, v2Vars, vueVars,
                 sock_thread, sock_attached, sock_line, written, last_published>>

\* send_terminal_input, lines 331-340: process.stdin.write(command + "\n"), flush;
\* the write to a child that has ended raises, which is reported
SendInputWrite(w) ==
  /\ impl = "sock"
  /\ pc[w] = "stdin_write"
  /\ IF is_alive(loc[w].p)
       THEN /\ child_stdin' = [child_stdin EXCEPT ![loc[w].p] = Append(@, loc[w].seq)]
            /\ loc' = [loc EXCEPT ![w].res = "ok"]
       ELSE /\ UNCHANGED child_stdin
            /\ loc' = [loc EXCEPT ![w].res = "Failed to send command"]
  /\ pc' = [pc EXCEPT ![w] = "ret"]
  /\ UNCHANGED <<env, procs, nextPid, termVars, tz, moreVars, disconnected, v2Vars,
                 active_processes, queues, child_stdout, threads, sockVars>>

\* ============================================================= api/vue2_terminal.py
\* The handlers of vue2_terminal hold no lock and wait for nothing while they work
\* on MCP_SESSIONS; the calls modelled here are made one after another, so each
\* handler is one step.  A command is identified by the number of its call on the
\* session object.
othervars == <<env, procs, nextPid, pc, loc, termVars, vueVars, tz, moreVars, disconnected,
               sockVars>>

\* str(uuid.uuid4()), line 55
uuid4 == SessionIds

\* A history that is full takes no further command.
add_to_history_keep_first(command_history, command) ==
  IF Len(command_history) < HistoryCap THEN Append(command_history, command)
  ELSE command_history

\* MCPSession.add_to_history, lines 31-37
add_to_history(command_history, command) ==
  LET appended == Append(command_history, command) IN
  IF Len(appended) > HistoryCap
    THEN SubSeq(appended, Len(appended) - HistoryCap + 1, Len(appended))
    ELSE appended

\* start_mcp_session, lines 41-82: MCPSession(session_id, user), stored under the id
V2Start(w) ==
  /\ impl = "vue2"
  /\ \E session_id \in uuid4 :
       /\ MCP_SESSIONS' = Put(MCP_SESSIONS, session_id,
                              [user |-> w, command_history |-> << >>])
       /\ issued' = [issued EXCEPT ![session_id] = 0]
  /\ UNCHANGED <<othervars, command_thread>>

\* no background thread is running
NoThread == [st |-> "none", sid |-> "-"]

\* execute_mcp_command, lines 117-135: the session check, add_to_history(command),
\* the thread for _execute_command_async is started.  One such thread at a time is
\* followed.
V2Execute(w, session_id) ==
  /\ impl = "vue2"
  /\ IF session_id \notin DOMAIN MCP_SESSIONS
       THEN UNCHANGED v2Vars
       ELSE /\ issued[session_id] < MaxCommands
            /\ command_thread = NoThread
            /\ issued' = [issued EXCEPT ![session_id] = @ + 1]
            /\ MCP_SESSIONS' = [MCP_SESSIONS EXCEPT ![session_id].command_history =
                                  add_to_history(@, issued[session_id] + 1)]
            /\ command_thread' = [st |-> "start", sid |-> session_id]
  /\ UNCHANGED othervars

\* _execute_command_async, lines 144-146: session = MCP_SESSIONS.get(session_id);
\* return when there is none
V2AsyncBegin ==
  /\ impl = "vue2"
  /\ command_thread.st = "start"
  /\ command_thread' = IF command_thread.sid \in DOMAIN MCP_SESSIONS
                         THEN [command_thread EXCEPT !.st = "run"]
                         ELSE NoThread
  /\ UNCHANGED <<othervars, MCP_SESSIONS, issued>>

\* _execute_command_async, lines 148-187 (and 189-200 when the command raised): the
\* command has run, mcp_command_result is emitted with the session_id of the call
\* to the room of the session object fetched at line 144
V2AsyncEmit ==
  /\ impl = "vue2"
  /\ command_thread.st = "run"
  /\ command_thread' = NoThread
  /\ UNCHANGED <<othervars, MCP_SESSIONS, issued>>

\* end_mcp_session, lines 90-109
V2End(w, session_id) ==
  /\ impl = "vue2"
  /\ IF session_id \in DOMAIN MCP_SESSIONS
       THEN /\ MCP_SESSIONS' = Remove(MCP_SESSIONS, session_id)
            /\ issued' = [issued EXCEPT ![session_id] = 0]
            /\ UNCHANGED command_thread
       ELSE UNCHANGED v2Vars
  /\ UNCHANGED othervars

\* ============================================================= api/mcp_server.py and the two doctypes
\* The server process is a child like the others; what is known about it between
\* requests is what the saved documents hold.  A child that has ended is taken as
\* reaped: psutil.Process(pid) raises NoSuchProcess for it.
nonSrv == <<impl, now, termVars, vueVars, tz, disconnected, sockVars, v2Vars, dev,
            singleton, active_sessions>>

\* subprocess.Popen of a server script, by the given starter
popen(ps, p, starter, ign) ==
  [ps EXCEPT ![p] = [st |-> "running", ign |-> ign, term |-> 0, kill |-> 0,
                     code |-> 0, owner |-> "-", key |-> starter]]

\* start_mcp_server, lines 106-122, with get_mcp_server_status lines 12-50 for the
\* call at line 121 (settings.enabled is set)
ServerStartBegin(w) ==
  /\ impl = "srv"
  /\ pc[w] = "idle"
  /\ LET pid == docs.settings.process_id IN
     IF pid # NoPid /\ is_alive(pid)
       THEN /\ pc' = [pc EXCEPT ![w] = "ret"]
            /\ loc' = [loc EXCEPT ![w] = [Idle EXCEPT !.op = "start",
                                                       !.res = "already running"]]
            /\ UNCHANGED docs
       ELSE /\ pc' = [pc EXCEPT ![w] = "srv_spawn"]
            /\ loc' = [loc EXCEPT ![w] = [Idle EXCEPT !.op = "start"]]
            /\ docs' = [docs EXCEPT !.settings.process_id = NoPid]
  /\ Accept
  /\ UNCHANGED <<nonSrv, procs, nextPid>>

\* start_mcp_server, lines 124-171: the command is prepared, Popen, sleep(1)
ServerStartSpawn(w, maxp) ==
  /\ impl = "srv"
  /\ pc[w] = "srv_spawn"
  /\ nextPid <= maxp
  /\ \E ign \in BOOLEAN : procs' = popen(procs, nextPid, "api", ign)
  /\ nextPid' = nextPid + 1
  /\ pc' = [pc EXCEPT ![w] = "srv_poll"]
  /\ loc' = [loc EXCEPT ![w].p = nextPid]
  /\ UNCHANGED <<nonSrv, calls, docs>>

\* start_mcp_server, lines 174-199: poll(); the pid is saved, or the error is
ServerStartSave(w) ==
  /\ impl = "srv"
  /\ pc[w] = "srv_poll"
  /\ docs' = IF is_alive(loc[w].p) THEN [docs EXCEPT !.settings.process_id = loc[w].p]
              ELSE docs
  /\ pc' = [pc EXCEPT ![w] = "ret"]
  /\ loc' = [loc EXCEPT ![w].res = IF is_alive(loc[w].p) THEN "success" ELSE "error"]
  /\ UNCHANGED <<nonSrv, calls, procs, nextPid>>

\* stop_mcp_server, lines 219-243: no pid stored; NoSuchProcess (lines 273-277);
\* or terminate()
ServerStopBegin(w) ==
  /\ impl = "srv"
  /\ pc[w] = "idle"
  /\ LET pid == docs.settings.process_id IN
     IF pid = NoPid \/ ~is_alive(pid)
       THEN /\ pc' = [pc EXCEPT ![w] = "ret"]
            /\ loc' = [loc EXCEPT ![w] = [Idle EXCEPT !.op = "stop", !.res = "error"]]
            /\ docs' = [docs EXCEPT !.settings.process_id = NoPid]
            /\ UNCHANGED procs
       ELSE /\ procs' = terminate(procs, pid)
            /\ pc' = [pc EXCEPT ![w] = "srv_wait"]
            /\ loc' = [loc EXCEPT ![w] = [Idle EXCEPT !.op = "stop", !.p = pid]]
            /\ UNCHANGED docs
  /\ Accept
  /\ UNCHANGED <<nonSrv, nextPid>>

\* stop_mcp_server, lines 246-271: wait(timeout=10); on TimeoutExpired kill() and
\* wait(), which returns when the process is gone; then the stop is saved
ServerStopWait(w) ==
  /\ impl = "srv"
  /\ \/ /\ pc[w] \in {"srv_wait", "srv_kill_wait"}
        /\ ~is_alive(loc[w].p)
        /\ docs' = [docs EXCEPT !.settings.process_id = NoPid]
        /\ pc' = [pc EXCEPT ![w] = "ret"]
        /\ loc' = [loc EXCEPT ![w].res = "stopped"]
        /\ UNCHANGED procs
     \/ /\ pc[w] = "srv_wait"
        /\ is_alive(loc[w].p)
        /\ procs' = kill(procs, loc[w].p)
        /\ pc' = [pc EXCEPT ![w] = "srv_kill_wait"]
        /\ UNCHANGED <<docs, loc>>
  /\ UNCHANGED <<nonSrv, calls, nextPid>>

\* MCPServerManager.start_server, lines 63-97
ManagerStart(w, maxp) ==
  /\ impl = "srv"
  /\ pc[w] = "idle"
  /\ IF docs.manager.server_status = "Running"
       THEN /\ loc' = [loc EXCEPT ![w] = [Idle EXCEPT !.op = "start",
                                                       !.res = "already running"]]
            /\ UNCHANGED <<procs, nextPid, docs>>
       ELSE /\ nextPid <= maxp
            /\ \E ign \in BOOLEAN : procs' = popen(procs, nextPid, "manager", ign)
            /\ nextPid' = nextPid + 1
            /\ docs' = [docs EXCEPT !.manager = [server_pid |-> nextPid,
                                                 server_status |-> "Running"]]
            /\ loc' = [loc EXCEPT ![w] = [Idle EXCEPT !.op = "start", !.p = nextPid,
                                                       !.res = "success"]]
  /\ pc' = [pc EXCEPT ![w] = "ret"]
  /\ Accept
  /\ UNCHANGED nonSrv

\* MCPServerManager.stop_server, lines 110-131: killpg(SIGTERM) of a process that
\* exists (lines 118-124), the document is saved as stopped
ManagerStop(w) ==
  /\ impl = "srv"
  /\ pc[w] = "idle"
  /\ IF docs.manager.server_status # "Running"
       THEN /\ loc' = [loc EXCEPT ![w] = [Idle EXCEPT !.op = "stop",
                                                       !.res = "not running"]]
            /\ UNCHANGED <<procs, docs>>
       ELSE /\ procs' = terminate(procs, docs.manager.server_pid)
            /\ docs' = [docs EXCEPT !.manager = [server_pid |-> NoPid,
                                                 server_status |-> "Stopped"]]
            /\ loc' = [loc EXCEPT ![w] = [Idle EXCEPT !.op = "stop",
                                                       !.p = docs.manager.server_pid,
                                                       !.res = "stopped"]]
  /\ pc' = [pc EXCEPT ![w] = "ret"]
  /\ Accept
  /\ UNCHANGED <<nonSrv, nextPid>>

\* MCPServerSettings.stop_server, lines 186-207, with is_server_running lines
\* 247-264: the document was loaded for this request, so self._process is None and
\* the handle made at line 199 is a psutil.Process; terminate()
SettingsStopBegin(w) ==
  /\ impl = "srv"
  /\ pc[w] = "idle"
  /\ LET pid == docs.settings.process_id IN
     IF pid = NoPid \/ ~is_alive(pid)
       THEN /\ pc' = [pc EXCEPT ![w] = "ret"]
            /\ loc' = [loc EXCEPT ![w] = [Idle EXCEPT !.op = "stop",
                                                       !.res = "not running"]]
            /\ UNCHANGED procs
       ELSE /\ procs' = terminate(procs, pid)
            /\ pc' = [pc EXCEPT ![w] = "settings_sleep"]
            /\ loc' = [loc EXCEPT ![w] = [Idle EXCEPT !.op = "stop", !.p = pid]]
  /\ Accept
  /\ UNCHANGED <<nonSrv, nextPid, docs>>

\* MCPServerSettings.stop_server, lines 209-231: after sleep(2), self._process.poll()
\* raises AttributeError on the psutil handle, which the handler at line 221 logs;
\* no SIGKILL is sent; the document is saved as stopped
SettingsStopEnd(w) ==
  /\ impl = "srv"
  /\ pc[w] = "settings_sleep"
  /\ docs' = [docs EXCEPT !.settings = [process_id |-> NoPid, status |-> "Stopped"]]
  /\ pc' = [pc EXCEPT ![w] = "ret"]
  /\ loc' = [loc EXCEPT ![w].res = "stopped"]
  /\ UNCHANGED <<nonSrv, calls, procs, nextPid>>

\* ============================================================= commands/mcp_dev.py
\* The command's main thread and the observer thread of the file watcher both call
\* restart_func; MCP_SERVER_PROCESS is a module global that every statement of
\* stop_mcp_server reads anew.  Init is the command before its first restart_func()
\* (line 414); the watcher is set up when that call has returned (lines 417-418).
DevThreads == {"main", "watcher"}
nonDev == <<env, pc, loc, termVars, vueVars, tz, disconnected, sockVars, v2Vars, docs,
            singleton, active_sessions>>

\* restart_func is entered: by the main loop when the process it refers to has
\* ended (line 421), by the watcher on a file event (lines 190-212).  Then
\* stop_mcp_server lines 269-273: terminate() when there is a process.
DevRestartBegin(t) ==
  /\ impl = "dev"
  /\ IF t = "main"
       THEN dev.pc[t] = "loop" /\ dev.proc # NoPid /\ ~is_alive(dev.proc)
       ELSE dev.pc[t] = "idle"
  /\ IF dev.proc # NoPid
       THEN /\ procs' = terminate(procs, dev.proc)
            /\ dev' = [dev EXCEPT !.pc[t] = "stop_wait"]
       ELSE /\ dev' = [dev EXCEPT !.pc[t] = "start"]
            /\ UNCHANGED procs
  /\ UNCHANGED <<nonDev, nextPid>>

\* stop_mcp_server lines 276-281: MCP_SERVER_PROCESS.wait(timeout=5), and kill() when
\* it timed out; AttributeError when the global is None by now
DevStopWait(t) ==
  /\ impl = "dev"
  /\ dev.pc[t] = "stop_wait"
  /\ IF dev.proc = NoPid
       THEN /\ dev' = [dev EXCEPT !.pc[t] = "raised"]
            /\ UNCHANGED procs
       ELSE /\ dev' = [dev EXCEPT !.pc[t] = "stop_clear"]
            /\ procs' = IF is_alive(dev.proc) THEN kill(procs, dev.proc) ELSE procs
  /\ UNCHANGED <<nonDev, nextPid>>

\* stop_mcp_server line 283: MCP_SERVER_PROCESS = None
DevStopClear(t) ==
  /\ impl = "dev"
  /\ dev.pc[t] = "stop_clear"
  /\ dev' = [dev EXCEPT !.proc = NoPid, !.pc[t] = "start"]
  /\ UNCHANGED <<nonDev, procs, nextPid>>

\* restart_mcp_server line 299: MCP_SERVER_PROCESS = start_mcp_server(...); the
\* caller goes back to its loop, and the main thread sets up the watcher after its
\* first call
DevStart(t, maxp) ==
  /\ impl = "dev"
  /\ dev.pc[t] = "start"
  /\ nextPid <= maxp
  /\ \E ign \in BOOLEAN : procs' = popen(procs, nextPid, "dev", ign)
  /\ nextPid' = nextPid + 1
  /\ dev' = [dev EXCEPT
       !.proc = nextPid,
       !.pc = [x \in DevThreads |->
                 IF x = t THEN (IF t = "main" THEN "loop" ELSE "idle")
                 ELSE IF dev.pc[x] = "off" THEN "idle" ELSE dev.pc[x]]]
  /\ UNCHANGED nonDev

\* ============================================================= mcp_ag2_example/server/server.py
\* get_mcp_server() is ERPNextMCPServer(): __new__, then __init__ on what it
\* returned.  singleton.instance counts the objects ever created (0: _instance is
\* None); a caller keeps the object it was given in loc[w].p.
nonSingle == <<impl, now, procs, nextPid, termVars, vueVars, tz, disconnected,
               sockVars, v2Vars, docs, dev, active_sessions>>

\* __new__, lines 32-38, under cls._lock
GetMcpServerNew(w) ==
  /\ impl = "single"
  /\ pc[w] = "idle"
  /\ singleton' = IF singleton.instance = 0
                    THEN [singleton EXCEPT !.instance = 1, !.initialized = FALSE]
                    ELSE singleton
  /\ pc' = [pc EXCEPT ![w] = "init_check"]
  /\ loc' = [loc EXCEPT ![w] = [Idle EXCEPT !.op = "get", !.p = singleton'.instance]]
  /\ Accept
  /\ UNCHANGED nonSingle

\* __init__, lines 46-47: if self._initialized: return
GetMcpServerInitCheck(w) ==
  /\ impl = "single"
  /\ pc[w] = "init_check"
  /\ pc' = [pc EXCEPT ![w] = IF singleton.initialized THEN "ret" ELSE "init_body"]
  /\ UNCHANGED <<nonSingle, calls, loc, singleton>>

\* __init__, lines 49-59: the fields are set, the directory is made,
\* self._initialized = True
GetMcpServerInitBody(w) ==
  /\ impl = "single"
  /\ pc[w] = "init_body"
  /\ singleton' = [singleton EXCEPT !.is_running = FALSE, !.initialized = TRUE,
                                     !.inits = @ + 1]
  /\ pc' = [pc EXCEPT ![w] = "start_server"]
  /\ UNCHANGED <<nonSingle, calls, loc>>

\* start_server, lines 62-88: unless is_running is set, a thread is started
GetMcpServerStartServer(w) ==
  /\ impl = "single"
  /\ pc[w] = "start_server"
  /\ singleton' = IF singleton.is_running THEN singleton
                  ELSE [singleton EXCEPT !.server_threads = @ + 1]
  /\ pc' = [pc EXCEPT ![w] = "ret"]
  /\ UNCHANGED <<nonSingle, calls, loc>>

\* run_server_thread, lines 67-84: a started thread makes its event loop, sets
\* is_running and runs the loop
RunServerThread ==
  /\ impl = "single"
  /\ singleton.loops < singleton.server_threads
  /\ singleton' = [singleton EXCEPT !.loops = @ + 1, !.is_running = TRUE]
  /\ UNCHANGED <<nonSingle, calls, pc, loc>>

\* ============================================================= api/websocket.py
\* handle_terminal_websocket(ws) runs on a thread of its own for a connection of
\* frappe.session.user (the worker's name).  active_sessions is imported from
\* api.terminal; the code that fills it is not part of the sources, so sessions
\* appear in it from outside.  A session counts what was done to it.
nonWs == <<impl, now, procs, nextPid, termVars, vueVars, tz, disconnected, sockVars,
           v2Vars, docs, dev, singleton>>
WsFirstMessages == {"none", "garbage", "no_session_id"} \cup SessionIds
WsLoopEvents == {"input", "resize", "ping", "output", "closed", "terminated"}

\* a terminal session of user u is registered under session_id
SessionOpens(session_id, u) ==
  /\ impl = "ws"
  /\ session_id \notin DOMAIN active_sessions
  /\ active_sessions' = Put(active_sessions, session_id,
        [user |-> u, last_active |-> 0, input |-> 0, resized |-> 0, output |-> 0])
  /\ UNCHANGED <<nonWs, calls, pc, loc>>

\* Any registered session passes, whoever owns it.
ws_authenticated_any_user(user, message) == message \in DOMAIN active_sessions

\* lines 23-50: the first message names a session (lines 23-33) that is in
\* active_sessions (line 36) and belongs to the current user (line 43)
ws_authenticated(user, message) ==
  /\ message \in DOMAIN active_sessions
  /\ active_sessions[message].user = user

\* lines 19-61 and 126-134: the first message is received; one error is sent and
\* the handler returns, or "Authentication successful" is sent and the loop starts
WsFirstMessage(w, message) ==
  /\ impl = "ws"
  /\ pc[w] = "idle"
  /\ LET l == [Idle EXCEPT !.op = "ws", !.user = w, !.len = 1,
                           !.sid = IF message \in SessionIds THEN message ELSE "-"]
     IN IF ws_authenticated(w, message)
          THEN /\ pc' = [pc EXCEPT ![w] = "ws_loop"]
               /\ loc' = [loc EXCEPT ![w] = [l EXCEPT !.ev = "message"]]
          ELSE /\ pc' = [pc EXCEPT ![w] = "ret"]
               /\ loc' = [loc EXCEPT ![w] = [l EXCEPT !.ev = "error"]]
  /\ Accept
  /\ UNCHANGED <<nonWs, active_sessions>>

\* lines 64-125: one round of the loop.  last_active is refreshed; then the process
\* is found terminated, or a message of the client is handled (input is written to
\* the PTY, resize, ping, the connection closed), or output of the PTY is sent.
WsLoop(w, event) ==
  /\ impl = "ws"
  /\ pc[w] = "ws_loop"
  /\ LET sid == loc[w].sid
         touched == [active_sessions EXCEPT ![sid].last_active = Sat(@)]
     IN active_sessions' =
          CASE event = "input" -> [touched EXCEPT ![sid].input = Sat(@)]
            [] event = "resize" -> [touched EXCEPT ![sid].resized = Sat(@)]
            [] event = "output" -> [touched EXCEPT ![sid].output = Sat(@)]
            [] OTHER -> touched
  /\ pc' = [pc EXCEPT ![w] = IF event \in {"closed", "terminated"} THEN "ret"
                              ELSE "ws_loop"]
  /\ loc' = [loc EXCEPT ![w].ev = CASE event = "output" -> "output"
                                    [] event = "ping" -> "pong"
                                    [] event = "terminated" -> "error"
                                    [] OTHER -> @,
                        ![w].len = IF event \in {"output", "ping", "terminated"}
                                     THEN Sat(@) ELSE @]
  /\ UNCHANGED <<nonWs, calls>>

\* ============================================================= specification
\* every module-level table is empty and no request is in progress
InitState ==
  /\ now = 0
  /\ calls = 0
  /\ procs = [p \in Pids |-> NoProc]
  /\ nextPid = 1
  /\ pc = [w \in Workers |-> "idle"]
  /\ loc = [w \in Workers |-> Idle]
  /\ terminals = << >>
  /\ pty_master = [p \in Pids |-> [st |-> "none", closes |-> 0]]
  /\ output_thread = [p \in Pids |-> "none"]
  /\ reader_loc = [p \in Pids |-> NoPid]
  /\ active_processes = << >>
  /\ request_queue = [p \in Pids |-> <<>>]
  /\ response_queue = [p \in Pids |-> <<>>]
  /\ child_stdin = [p \in Pids |-> <<>>]
  /\ child_stdout = [p \in Pids |-> <<>>]
  /\ stdin_thread = [p \in Pids |-> "none"]
  /\ stdout_thread = [p \in Pids |-> "none"]
  /\ broken_pipe = {}
  /\ disconnected = {}
  /\ mcp_processes = << >>
  /\ sock_thread = [p \in Pids |-> "none"]
  /\ sock_attached = [p \in Pids |-> NoPid]
  /\ sock_line = [p \in Pids |-> 0]
  /\ written = [p \in Pids |-> 0]
  /\ last_published = [p \in Pids |-> 0]
  /\ MCP_SESSIONS = << >>
  /\ issued = [s \in SessionIds |-> 0]
  /\ command_thread = [st |-> "none", sid |-> "-"]
  /\ docs = [settings |-> [process_id |-> NoPid, status |-> "Stopped"],
             manager |-> [server_pid |-> NoPid, server_status |-> "Stopped"]]
  /\ dev = [proc |-> NoPid, pc |-> [main |-> "start", watcher |-> "off"]]
  /\ singleton = [instance |-> 0, initialized |-> FALSE, is_running |-> FALSE,
                  inits |-> 0, server_threads |-> 0, loops |-> 0]
  /\ active_sessions = << >>

\* the site's time zone is the server's own
InitCommon == tz = 0 /\ InitState

\* what happens outside the handlers: a child ends by itself, a handler's thread
\* is free again
NextOS ==
  \/ \E p \in Pids : ChildExits(p)
  \/ \E w \in Workers : Return(w)

\* a signalled child dies
Signals == \E p \in Pids : ChildDiesOfSignal(p)

\* the session's two worker threads and its child
VueThreads ==
  \/ \E p \in Pids : ChildResponds(p)
  \/ \E p \in Pids : StdinCheck(p)
  \/ \E p \in Pids : StdinGet(p)
  \/ \E p \in Pids : StdoutCheck(p)
  \/ \E p \in Pids : StdoutRead(p)

VueStart(maxp) ==
  \/ \E w \in Workers : StartSpawn(w, w, maxp)
  \/ \E w \in Workers : StartStore(w)
  \/ \E w \in Workers : StartWait(w)

VueExec ==
  \/ \E w \in Workers, sid \in SessionIds : ExecBegin(w, w, sid)
  \/ \E w \in Workers : ExecPut(w)
  \/ \E w \in Workers : ExecWait(w)

VueCleanup ==
  \/ \E w \in Workers : CsWait(w)
  \/ \E w \in Workers : CsDel(w)

VueEnd == \E w \in Workers, sid \in SessionIds : EndBegin(w, w, sid)

VueSweep ==
  \/ \E w \in Workers : SweepScan(w)
  \/ \E w \in Workers : LoopIter(w)
  \/ \E w \in Workers : SweepNext(w)

VueList ==
  \/ \E w \in Workers : ListScan(w, w)
  \/ \E w \in Workers : LoopIter(w)

\* vue_terminal with one session: every handler, every thread, the clock
NextVue == NextOS \/ Signals \/ Tick \/ VueThreads \/ VueStart(1) \/ VueExec \/ VueEnd
             \/ VueCleanup \/ VueSweep

InitVue == impl = "vue" /\ InitCommon
SpecVue == InitVue /\ [][NextVue]_vars

\* vue_terminal with two sessions: start_mcp_session only
NextVueTwo == NextOS \/ VueThreads \/ VueStart(2)
SpecVueTwo == InitVue /\ [][NextVueTwo]_vars

\* MCPTerminalNamespace: the reader thread of a terminal
TermReader ==
  \/ \E p \in Pids : ReadOutput(p)
  \/ \E p \in Pids : ReaderCtBegin(p)
  \/ \E p \in Pids : ReaderCtWait(p)
  \/ \E p \in Pids : ReaderCtClose(p)

\* the socket.io event handlers, for the connections sids
TermRegister(sids, maxp) ==
  \/ \E w \in Workers, sid \in sids : OnRegister(w, sid, maxp)
  \/ \E w \in Workers : CreateTerminalStore(w)

TermInput(sids) ==
  \/ \E w \in Workers, sid \in sids : OnInput(w, sid)
  \/ \E p \in Pids : TermChildEchoes(p)

TermDisconnect(sids) ==
  \/ \E w \in Workers, sid \in sids : OnDisconnect(w, sid)
  \/ \E w \in Workers : CtWait(w)
  \/ \E w \in Workers : CtClose(w)

\* delivery of the terminal's output to the client fails
TermEmitFails ==
  \/ \E p \in Pids : ReadOutputEmitFails(p)
  \/ \E p \in Pids : ReadOutputExcept(p)

\* one client connection, which may register twice
NextTerm == NextOS \/ Signals \/ TermReader \/ TermRegister({"s1"}, 2) \/ TermInput({"s1"})
              \/ TermDisconnect({"s1"}) \/ TermEmitFails

InitTerm == impl = "term" /\ InitCommon
SpecTerm == InitTerm /\ [][NextTerm]_vars

\* the teardown paths of both registries, one session each
NextTeardown == NextOS \/ Signals \/ VueThreads \/ VueStart(1) \/ VueEnd \/ VueCleanup
                  \/ TermReader \/ TermRegister({"s1"}, 1) \/ TermDisconnect({"s1"})

InitTeardown == impl \in {"vue", "term"} /\ InitCommon
SpecTeardown == InitTeardown /\ [][NextTeardown]_vars

\* socket_handlers: start_mcp_process, the reader threads and the children
SockReader ==
  \/ \E t \in Pids : SockReaderStart(t)
  \/ \E t \in Pids : SockReadLine(t)
  \/ \E t \in Pids : SockPublish(t)
  \/ \E t \in Pids : SockReaderExit(t)
  \/ \E p \in Pids : SockChildWrites(p)

\* input for a user's process; a user can have several requests under way
SockInput ==
  \/ \E w \in Workers, u \in Users : SendInput(w, u)
  \/ \E w \in Workers : SendInputWrite(w)

NextSock == NextOS \/ SockReader \/ (\E w \in Workers : SockStart(w, w, 2)) \/ SockInput

InitSock == impl = "sock" /\ InitCommon
SpecSock == InitSock /\ [][NextSock]_vars

\* session creation that succeeds or fails at the spawn, for both registries
LaunchFails ==
  \/ \E w \in Workers : StartSpawnFails(w, w)
  \/ \E w \in Workers : CreateTerminalNoBinary(w, "s1")
  \/ \E w \in Workers : CreateTerminalPopenRaises(w, "s1")
  \/ \E w \in Workers : CreateTerminalExcept(w)

NextLaunch == NextOS \/ VueThreads \/ VueStart(1) \/ TermRegister({"s1"}, 1)
                \/ TermDisconnect({"s1"}) \/ Signals \/ LaunchFails

SpecLaunch == InitTeardown /\ [][NextLaunch]_vars

\* requests that name a session, for the three registries, one session each
NextNamed ==
  \/ NextOS
  \/ VueThreads \/ VueStart(1) \/ VueExec \/ VueCleanup
  \/ TermRegister({"s1"}, 1) \/ TermInput(SessionIds)
  \/ \E w \in Workers, sid \in SessionIds : OnResize(w, sid)
  \/ \E w \in Workers : SockStart(w, w, 1)
  \/ SockInput

InitNamed == impl \in {"vue", "term", "sock"} /\ InitCommon
SpecNamed == InitNamed /\ [][NextNamed]_vars

\* vue_terminal with two sessions that are started, ended, listed and swept
NextVueList ==
  \/ \E w \in Workers : Return(w)
  \/ VueStart(2) \/ VueEnd \/ VueCleanup \/ VueList \/ VueSweep
SpecVueList == InitVue /\ [][NextVueList]_vars

\* vue_terminal with two sessions whose children stay alive: start and execute.
\* No signal is sent here, so whether a child ignores SIGTERM is left out; a
\* child's answer is a JSON line or not, which is all stdout_worker looks at.
NextVuePair ==
  \/ \E w \in Workers : Return(w)
  \/ \E p \in Pids : ChildResponds(p) /\ \A i \in DOMAIN child_stdout'[p] :
                                            child_stdout'[p][i].kind # "error"
  \/ \E p \in Pids : StdinCheck(p)
  \/ \E p \in Pids : StdinGet(p)
  \/ \E p \in Pids : StdoutCheck(p)
  \/ \E p \in Pids : StdoutRead(p)
  \/ \E w \in Workers : StartSpawn(w, w, 2) /\ ~procs'[nextPid].ign
  \/ \E w \in Workers : StartStore(w)
  \/ \E w \in Workers : StartWait(w)
  \/ VueExec
SpecVuePair == InitVue /\ [][NextVuePair]_vars

\* vue2_terminal: sessions are started, sent commands and ended
NextVue2 ==
  \/ \E w \in Workers : V2Start(w)
  \/ \E w \in Workers, sid \in SessionIds : V2Execute(w, sid)
  \/ \E w \in Workers, sid \in SessionIds : V2End(w, sid)
  \/ V2AsyncBegin
  \/ V2AsyncEmit

InitVue2 == impl = "vue2" /\ InitCommon
SpecVue2 == InitVue2 /\ [][NextVue2]_vars

\* vue_terminal: a session is started and its child ends while no
\* sweep runs; one cleanup_inactive_sessions runs with no other request and no
\* spontaneous exit beside it.  The site's time zone is any of ZoneOffsets.
ZoneOffsets == {0 - 18000, 0, 25200}
Sweeping == \E w \in Workers : loc[w].op = "sweep"
Quiet == \A w \in Workers : pc[w] = "idle"
NextSweep ==
  \/ \E w \in Workers : Return(w)
  \/ Signals
  \/ ~Sweeping /\ VueThreads
  \/ ~Sweeping /\ ChildExits(1)
  \/ ~Sweeping /\ Tick
  \/ ~Sweeping /\ VueStart(1)
  \/ Quiet /\ (\E w \in Workers : SweepScan(w))
  \/ \E w \in Workers : LoopIter(w)
  \/ \E w \in Workers : SweepNext(w)
  \/ VueCleanup
InitSweep == impl = "vue" /\ tz \in ZoneOffsets /\ InitState
SpecSweep == InitSweep /\ [][NextSweep]_vars

\* the implementations that keep one server, one instance or one connection
InitMore == impl \in {"srv", "dev", "single", "ws"} /\ InitCommon

\* the server process of the site: started and stopped through api.mcp_server and
\* through the two documents
NextSrv ==
  \/ NextOS
  \/ Signals
  \/ \E w \in Workers : ServerStartBegin(w)
  \/ \E w \in Workers : ServerStartSpawn(w, 2)
  \/ \E w \in Workers : ServerStartSave(w)
  \/ \E w \in Workers : ServerStopBegin(w)
  \/ \E w \in Workers : ServerStopWait(w)
  \/ \E w \in Workers : ManagerStart(w, 2)
  \/ \E w \in Workers : ManagerStop(w)
  \/ \E w \in Workers : SettingsStopBegin(w)
  \/ \E w \in Workers : SettingsStopEnd(w)
SpecSrv == InitMore /\ [][NextSrv]_vars

\* the mcp-dev command: the server process, the main loop and the file watcher
NextDev ==
  \/ \E p \in Pids : ChildExits(p)
  \/ Signals
  \/ \E t \in DevThreads : DevRestartBegin(t)
  \/ \E t \in DevThreads : DevStopWait(t)
  \/ \E t \in DevThreads : DevStopClear(t)
  \/ \E t \in DevThreads : DevStart(t, 2)
SpecDev == InitMore /\ [][NextDev]_vars

\* ERPNextMCPServer: request threads call get_mcp_server()
NextSingle ==
  \/ \E w \in Workers : Return(w)
  \/ \E w \in Workers : GetMcpServerNew(w)
  \/ \E w \in Workers : GetMcpServerInitCheck(w)
  \/ \E w \in Workers : GetMcpServerInitBody(w)
  \/ \E w \in Workers : GetMcpServerStartServer(w)
  \/ RunServerThread
SpecSingle == InitMore /\ [][NextSingle]_vars

\* handle_terminal_websocket: connections of both users, sessions of both users
NextWs ==
  \/ \E w \in Workers : Return(w)
  \/ \E sid \in SessionIds, u \in Users : SessionOpens(sid, u)
  \/ \E w \in Workers, message \in WsFirstMessages : WsFirstMessage(w, message)
  \/ \E w \in Workers, event \in WsLoopEvents : WsLoop(w, event)
SpecWs == InitMore /\ [][NextWs]_vars

\* ============================================================= claims
\* The entry of session sid still belongs to process p.
Registered(p) ==
  /\ procs[p].key \in DOMAIN active_processes
  /\ active_processes[procs[p].key].process = p

\* C1: an operation on an existing session requested by a user other than its
\* creating owner fails closed: it sends the session's process no input, gets none
\* of its output, does not terminate it and leaves its registry entry alone.  In
\* the model: no handler of execute_mcp_command or end_mcp_session gets past the
\* registry lookup (to the queue put, the wait for the reply, or the signalling
\* and deleting of cleanup_session) on behalf of a user who is not the owner of
\* the process it holds.
C1_ForeignUserFailsClosed ==
  \A w \in Workers :
    (/\ loc[w].op \in {"execute", "end"}
     /\ pc[w] \in {"exec_put", "exec_wait", "cs_wait", "cs_del"})
    => procs[loc[w].p].owner = loc[w].user

\* The keys of the registry of the implementation that runs.
Registry == IF impl = "vue" THEN DOMAIN active_processes ELSE DOMAIN terminals

\* C2: teardown is idempotent.  A completed teardown (cleanup_session,
\* cleanup_terminal) leaves the session's key out of the registry; a teardown
\* called for a key that is not in the registry returns at once without error,
\* signals no process, closes no descriptor and leaves the registry as it was,
\* whether a request handler or a terminal's reader thread calls it.
C2_TeardownIdempotent ==
  [][/\ \A w \in Workers :
          /\ (pc[w] \in {"cs_del", "ct_close"} /\ pc'[w] # pc[w])
               => loc[w].sid \notin Registry'
          /\ (/\ pc[w] = "idle" /\ loc'[w].op \in {"end", "disconnect"}
              /\ loc'[w].sid \notin Registry)
               => /\ pc'[w] = "ret" /\ loc'[w].res = "ok"
                  /\ procs' = procs /\ pty_master' = pty_master
                  /\ terminals' = terminals /\ active_processes' = active_processes
                  /\ request_queue' = request_queue
     /\ \A p \in Pids :
          (/\ output_thread[p] \in {"ct_begin", "ct_again"}
           /\ output_thread'[p] # output_thread[p]
           /\ procs[p].key \notin Registry)
          => /\ output_thread'[p] = "done"
             /\ procs' = procs /\ pty_master' = pty_master /\ terminals' = terminals
    ]_vars

\* A second cleanup_terminal for a terminal that was torn down has returned.
C2_SecondTeardownReturned ==
  \E w \in Workers, p \in Pids :
    /\ pc[w] = "ret" /\ loc[w].op = "disconnect" /\ loc[w].p = NoPid
    /\ loc[w].res = "ok"
    /\ procs[p].key = loc[w].sid /\ pty_master[p].st = "closed"
    /\ pty_master[p].closes = 1

\* C3: when a teardown of a session whose child ignores Terminate returns, the
\* teardown has escalated to Kill and the child is no longer alive.
C3_TeardownLeavesNoLiveChild ==
  \A w \in Workers :
    (/\ pc[w] = "ret" /\ loc[w].op = "end" /\ loc[w].p # NoPid
     /\ procs[loc[w].p].ign)
    => (procs[loc[w].p].kill > 0 /\ ~is_alive(loc[w].p))

\* The entry of terminals under the socket id of process p refers to p.
TermRegistered(p) ==
  /\ procs[p].key \in DOMAIN terminals
  /\ terminals[procs[p].key].process = p

\* C4: each registry key has one live child; registering again for a key never
\* leaves the earlier process running without a registry entry that refers to it.
\* Every child that is alive, was never signalled and whose create_terminal has
\* stored its entry is the one its key's entry refers to.
C4_NoOrphanOnRestart ==
  \A p \in Pids :
    (/\ is_alive(p) /\ procs[p].term = 0 /\ procs[p].kill = 0
     /\ \A w \in Workers : ~(pc[w] = "create_store" /\ loc[w].p = p))
    => TermRegistered(p)

\* C5: when start_mcp_session fails because the initialize response did not come
\* within the bound or was an error, the spawned child has been killed and the
\* registry holds no entry for the session.
C5_FailedHandshakeCleansUp ==
  \A w \in Workers :
    (pc[w] = "ret" /\ loc[w].op = "start" /\ loc[w].res \in {"init timeout", "init failed"})
    => (~is_alive(loc[w].p) /\ loc[w].sid \notin DOMAIN active_processes)

\* C6: concurrent teardowns of one session tear it down exactly once: no invocation
\* ends with an error and the session's process gets one Terminate at most.
C6_ConcurrentTeardownOnce ==
  /\ \A w \in Workers : pc[w] = "ret" => loc[w].res # "KeyError"
  /\ \A p \in Pids : procs[p].term <= 1

\* C7: the sweep never starts tearing down a session whose process is alive and
\* whose last_used is within the idle threshold at that moment.
C7_SweepSparesRefreshedSession ==
  [][\A w \in Workers :
       (pc[w] = "sweep_next" /\ pc'[w] = "cs_wait")
       => ~(/\ is_alive(loc'[w].p)
            /\ now - active_processes[loc'[w].sid].last_used <= IdleThreshold)]_vars

\* C8: when a session's child has exited on its own, its registry entry is removed
\* and a termination event is delivered to the owning client.  Stated for the
\* sweep of vue_terminal: a sweep that removed the entry of a child that had
\* exited by itself returns having published the session's end.
C8_ExitIsNotified ==
  \A w \in Workers :
    (/\ pc[w] = "ret" /\ loc[w].op = "sweep" /\ loc[w].p # NoPid
     /\ procs[loc[w].p].code = 1 /\ ~Registered(loc[w].p))
    => loc[w].ev = "mcp_session_ended"

\* C9: input sent to a session whose process has exited is answered with an
\* explicit process-terminated failure, never with success or a bare timeout: a
\* request whose write to the child's stdin hit a broken pipe does not end as
\* "Command timed out".
C9_InputAfterExitFailsExplicitly ==
  \A w \in Workers :
    (/\ pc[w] = "ret" /\ loc[w].op = "execute"
     /\ <<loc[w].p, request_id(w)>> \in broken_pipe)
    => loc[w].res = "Session terminated"

\* The cap on concurrent sessions per owner.
MaxSessionsPerOwner == 1

\* the sessions user u holds
sessions_of(u) == {sid \in DOMAIN active_processes : active_processes[sid].user = u}

\* C10: session creation enforces the per-owner cap: the number of sessions an
\* owner holds in the registry never exceeds it.
C10_PerOwnerCap ==
  \A u \in Users : Cardinality(sessions_of(u)) <= MaxSessionsPerOwner

\* C11: the lines handed to the client appear in the order the session's process
\* wrote them, without reordering or duplication.  Stated for read_mcp_output:
\* each line of a process that is published carries a higher number than the
\* line of that process published before it.
C11_OutputInOrder ==
  [][\A p \in Pids :
       last_published'[p] # last_published[p] => last_published'[p] > last_published[p]
    ]_vars


\* C12: two sessions of different owners have two processes, a response waits
\* only in the queue of the session whose process wrote it, and a reply read from
\* one owner's process is never handed to the other owner.
C12_NoCrossDelivery ==
  /\ \A s, t \in DOMAIN active_processes :
       s # t => active_processes[s].process # active_processes[t].process
  /\ \A p \in Pids : \A i \in DOMAIN response_queue[p] : response_queue[p][i].from = p
  /\ (\E s, t \in DOMAIN active_processes :
        active_processes[s].user # active_processes[t].user)
       => \A w \in Workers :
            (loc[w].op = "execute" /\ loc[w].src # NoPid) =>
              procs[loc[w].src].owner = loc[w].user

\* C13: a session's last_used never decreases, and it is advanced whenever output
\* of the session's process is received (stdout_worker puts a response on the
\* session's queue).
C13_ActivityTracksTransfers ==
  [][\A p \in Pids :
       LET sid == procs[p].key IN
       (Registered(p) /\ Registered(p)') =>
         /\ active_processes'[sid].last_used >= active_processes[sid].last_used
         /\ Len(response_queue'[p]) > Len(response_queue[p]) =>
              active_processes'[sid].last_used = now
    ]_vars

\* C14: the command_history of a vue2_terminal session holds at most 100 entries,
\* and they are the commands issued last, in the order they were issued: after n
\* calls it is the commands n - k + 1 .. n with k the smaller of n and 100.
C14_HistoryIsLastHundred ==
  \A s \in DOMAIN MCP_SESSIONS :
    LET h == MCP_SESSIONS[s].command_history
        n == issued[s]
    IN /\ Len(h) <= HistoryCap
       /\ Len(h) = (IF n < HistoryCap THEN n ELSE HistoryCap)
       /\ \A i \in 1..Len(h) : h[i] = n - Len(h) + i

\* a session was sent more than 101 commands: the oldest was evicted more than once
C14_HistoryEvicted ==
  \E s \in DOMAIN MCP_SESSIONS :
    /\ issued[s] > HistoryCap + 1
    /\ Len(MCP_SESSIONS[s].command_history) = HistoryCap

\* C15: creating a session never overwrites an existing registry entry (the entry
\* under a key never comes to refer to another process), and a key under which a
\* process was registered is never given to a process spawned later.
C15_IdNeverReassigned ==
  [][/\ \A sid \in DOMAIN terminals \cap DOMAIN terminals' :
          terminals'[sid].process = terminals[sid].process
     /\ \A p \in Pids :
          (procs[p].st = "none" /\ procs'[p].st # "none") =>
            \A q \in Pids \ {p} : procs[q].st # "none" => procs[q].key # procs'[p].key
    ]_vars

\* C16: the read_output thread started for child p tears down only an entry that
\* refers to p: the process it signals, whose descriptor it closes and whose entry
\* it deletes in cleanup_terminal is never another one.
C16_ReaderTearsDownOwnEntry ==
  \A p \in Pids : reader_loc[p] \in {NoPid, p}

\* C17: the reply execute_mcp_command hands to a caller working on a session of
\* its own is the reply to that caller's request: it carries the request id the
\* call generated.
C17_ReplyMatchesRequest ==
  \A w \in Workers :
    (/\ pc[w] = "ret" /\ loc[w].op = "execute" /\ loc[w].reply # "-"
     /\ procs[loc[w].p].owner = loc[w].user) =>
      loc[w].reply = request_id(w)

\* C18: a failing delivery of a terminal's output does not end the session: the
\* read_output thread whose emit raised goes back to reading, and no entry is
\* deactivated, no process signalled and no descriptor closed on account of it.
C18_DeliveryFailureNotFatal ==
  [][\A p \in Pids :
       (output_thread[p] = "emit_raised" /\ output_thread'[p] # "emit_raised") =>
         output_thread'[p] = "loop"
    ]_vars

\* C19: no terminal survives for a disconnected client: once on_disconnect(sid)
\* and every on_mcp_register of that connection have returned, sid has no
\* registry entry.
C19_NoTerminalSurvivesDisconnect ==
  \A sid \in disconnected :
    (\A w \in Workers : pc[w] \in {"idle", "ret"}) => sid \notin DOMAIN terminals

\* C20: listing or sweeping the registry while another request creates or
\* destroys a session completes without error.
C20_IterationSurvivesMutation ==
  \A w \in Workers :
    (pc[w] = "ret" /\ loc[w].op \in {"list", "sweep"}) => loc[w].res # "RuntimeError"

\* C21: the inputs for one process reach its stdin in the order in which the
\* requests carrying them were accepted.
C21_InputsInAcceptedOrder ==
  \A p \in Pids :
    \A i, j \in DOMAIN child_stdin[p] : i < j => child_stdin[p][i] < child_stdin[p][j]

\* The request thread w takes up names a session its registry does not hold.
NamesMissingSession(w) ==
  /\ pc[w] = "idle" /\ pc'[w] # "idle"
  /\ loc'[w].op \in {"execute", "input", "resize"}
  /\ CASE impl = "vue" -> loc'[w].sid \notin DOMAIN active_processes
       [] impl = "term" -> loc'[w].sid \notin DOMAIN terminals
       [] impl = "sock" -> loc'[w].user \notin DOMAIN mcp_processes
       [] OTHER -> FALSE

C23_LaunchFailureLeavesNothing ==
  [][\A w \in Workers :
       (/\ pc'[w] # pc[w]
        /\ pc'[w] = "create_except" \/ loc'[w].res = "spawn failed")
       => /\ UNCHANGED <<procs, nextPid, active_processes, terminals, pty_master,
                         output_thread, stdin_thread, stdout_thread>>
          /\ loc'[w].p = NoPid
          /\ pc'[w] = "ret" =>
               /\ impl = "term" => loc'[w].ev = "mcp:output"
               /\ loc'[w].fds.opened =>
                    loc'[w].fds.master = 1 /\ loc'[w].fds.slave = 1
    ]_vars

\* a create_terminal whose Popen raised has returned, while a terminal is registered
C23_LaunchFailed ==
  \E w \in Workers :
    /\ pc[w] = "ret" /\ loc[w].res = "spawn failed" /\ loc[w].fds.opened
    /\ terminals # << >>
\* How long ago the entry was used last: both instants on the site's clock.
age(info) == now_datetime - info.last_used
Due(sid) ==
  \/ ~is_alive(active_processes[sid].process)
  \/ age(active_processes[sid]) > IdleThreshold

\* C24: one run of cleanup_inactive_sessions with nothing beside it removes exactly
\* the sessions whose process is dead or whose last use is more than 3600 s ago:
\* when it returns, it returns normally and no such session is left, and while it
\* runs every other session keeps its entry, its timestamp and its process as
\* they were.
C24_SweepRemovesExactlyDue ==
  /\ [](\A w \in Workers :
          (pc[w] = "ret" /\ loc[w].op = "sweep") =>
             /\ loc[w].res = "ok"
             /\ \A sid \in DOMAIN active_processes : ~Due(sid))
  /\ [][Sweeping =>
          \A sid \in DOMAIN active_processes :
            ~Due(sid) =>
              /\ sid \in DOMAIN active_processes'
              /\ active_processes'[sid] = active_processes[sid]
              /\ procs'[active_processes[sid].process] =
                   procs[active_processes[sid].process]]_vars

\* C25: in vue2_terminal, once end_mcp_session has removed a session, no
\* mcp_command_result for that session is emitted: a background thread emits the
\* result of a command only for a session that is still in MCP_SESSIONS.
C25_NoResultAfterEnd ==
  [][(command_thread.st = "run" /\ command_thread'.st # "run") =>
       command_thread.sid \in DOMAIN MCP_SESSIONS]_vars

\* C26: api.mcp_server.start_mcp_server never leaves two server processes running:
\* of the processes it started at most one is alive, and once no start is under way
\* that one is the process whose pid settings.process_id holds.
C26_OneServerProcess ==
  LET live == {p \in Pids : is_alive(p) /\ procs[p].key = "api"} IN
  /\ Cardinality(live) <= 1
  /\ (\A w \in Workers : pc[w] = "idle") =>
       \A p \in live : docs.settings.process_id = p

\* C27: a stop operation that reports success and records the server as stopped
\* leaves the process it stopped not alive, whether or not the process ignores
\* SIGTERM.
C27_StoppedMeansDead ==
  \A w \in Workers :
    (pc[w] = "ret" /\ loc[w].op = "stop" /\ loc[w].res = "stopped" /\ loc[w].p # NoPid)
      => ~is_alive(loc[w].p)

\* C28: while the mcp-dev command runs, every development server process that is
\* alive (and has not been sent SIGKILL) is the one MCP_SERVER_PROCESS refers to:
\* at most one is alive and none runs unreferenced, whatever the interleaving of
\* the watcher's restart with the main loop's.
C28_OneDevServer ==
  (impl = "dev" /\ dev.pc.main # "raised") =>
    \A p \in Pids : (is_alive(p) /\ procs[p].kill = 0) => dev.proc = p

\* C29: ERPNextMCPServer is a singleton: every caller of get_mcp_server() is given
\* the one object ever created, its initialisation body runs at most once and at
\* most one background server thread is started for it.
C29_SingletonInitialisedOnce ==
  /\ singleton.instance <= 1
  /\ \A w \in Workers : loc[w].op = "get" => loc[w].p = 1
  /\ singleton.inits <= 1
  /\ singleton.server_threads <= 1

\* C30: handle_terminal_websocket writes no input to a PTY, resizes nothing, sends
\* no terminal output and refreshes no session until the first message of the
\* connection has named a registered session of the current user: whatever is done
\* to a session is done by a handler in its loop for that session, whose user owns
\* it; a handler enters the loop only for such a session; and a handler whose first
\* message is missing, unreadable, without a session id, or names an unknown or
\* another user's session sends exactly one message, an error, and ends with every
\* session as it was.
C30_NothingBeforeAuthentication ==
  [][/\ \A sid \in DOMAIN active_sessions \cap DOMAIN active_sessions' :
          active_sessions'[sid] # active_sessions[sid] =>
            \E w \in Workers : /\ pc[w] = "ws_loop"
                               /\ loc[w].sid = sid
                               /\ active_sessions[sid].user = w
     /\ \A w \in Workers :
          (pc[w] = "idle" /\ pc'[w] = "ws_loop") =>
             /\ loc'[w].sid \in DOMAIN active_sessions
             /\ active_sessions[loc'[w].sid].user = w
     /\ \A w \in Workers :
          (pc[w] = "idle" /\ pc'[w] = "ret" /\ loc'[w].op = "ws") =>
             /\ loc'[w].len = 1
             /\ loc'[w].ev = "error"
             /\ active_sessions' = active_sessions
    ]_vars

\* a connection that named another user's session was refused, and a connection
\* of the owner has written input to that session
C30_ForeignSessionRefused ==
  \E w \in Workers :
    /\ pc[w] = "ret" /\ loc[w].op = "ws" /\ loc[w].ev = "error"
    /\ loc[w].sid \in DOMAIN active_sessions
    /\ active_sessions[loc[w].sid].user # w
    /\ active_sessions[loc[w].sid].input > 0

====
